---- MODULE Spec2Model ----
(***************************************************************************)
(* The task decomposition and orchestration layer of the Waver chatbot:    *)
(* ToolRegistry / AgentTool (agent_tools.py), QueryDecomposer              *)
(* (query_decomposition.py) and AgentOrchestrator (agent_orchestrator.py). *)
(*                                                                         *)
(* asyncio runs one coroutine at a time and switches only at an await that *)
(* suspends, so every action below is one such atomic section of code.     *)
(***************************************************************************)
EXTENDS Naturals, Integers, Sequences, FiniteSets, TLC

(***************************************************************************)
(* Bounds of the model.                                                    *)
(***************************************************************************)
MaxTasks == 2
MaxCalls == 2
MaxExecutions == 2
MaxClock == 1
MaxDecompositions == 3
MaxToolCalls == 3
MaxData == 2
MaxDirectCalls == 1

\* the priorities sub-tasks are given, and the ceilings an orchestrator is built with
Priorities == {1, 2}
Ceilings == {1, 2}

(***************************************************************************)
(* Program constants.                                                      *)
(***************************************************************************)
MaxRetries == 3
HistoryCap == 100

VARIABLES
    tools,                \* ToolRegistry.tools: name -> the tool's execution_count
    tool_usage_stats,     \* ToolRegistry.tool_usage_stats: name -> count
    registry_outcome,     \* the last direct execute_tool call: its name and how it stands
    registry_calls,       \* number of direct execute_tool calls made
    tool_call,            \* the last call made on a tool itself: how, with what, its end
    calls_since_register, \* history: per name registered so far, the execute_tool
                          \* calls made on it since it was last registered
    max_concurrent_tasks, \* AgentOrchestrator.max_concurrent_tasks
    active_executions,    \* AgentOrchestrator.active_executions: execution_id -> plan
    execution_history,    \* AgentOrchestrator.execution_history
    performance_metrics,  \* AgentOrchestrator.performance_metrics
    now,                  \* the reading of datetime.now()
    plans_created,        \* number of ExecutionPlan objects built so far
    pc,                   \* per execute_query_plan call: where the coroutine is
    plan,                 \* per call: its ExecutionPlan object
    completed_tasks,      \* per call: the local set completed_tasks
    running_tasks,        \* per call: the local map running_tasks
    results,              \* per call: the local map results
    ret,                  \* per call: what the call gave to its caller
    task_id_counter,      \* QueryDecomposer.task_id_counter
    decomposition,        \* the QueryDecomposition decompose_query returned last
    decompositions_made,  \* number of decompose_query calls so far
    analysis,             \* what analyze_query made of the last query given as text
    suspended,            \* number of decompose_query calls awaiting the LLM's answer
    issued,               \* history: the ids of the sub-tasks of earlier decompositions
    prepared,             \* the last _prepare_task_parameters call and what it returned
    task_log              \* history: per call, the status assignments made to the task
                          \* executions of its plan, and per task id how often it was
                          \* dispatched, taken out of running_tasks, added to completed_tasks

registryVars ==
    <<tools, tool_usage_stats, registry_outcome, registry_calls, tool_call,
      calls_since_register>>
orchVars == <<max_concurrent_tasks, active_executions, execution_history,
              performance_metrics, now, plans_created>>
callVars == <<pc, plan, completed_tasks, running_tasks, results, ret, task_log>>
decompVars == <<task_id_counter, decomposition, decompositions_made, analysis,
               suspended, issued>>
paramVars == <<prepared>>
vars == <<registryVars, orchVars, callVars, decompVars, paramVars>>

Calls == 1..MaxCalls

(***************************************************************************)
(* Small helpers on maps (Python dicts) and sequences.                     *)
(***************************************************************************)
EmptyMap == [k \in {} |-> 0]

MapPut(m, k, v) == [x \in DOMAIN m \cup {k} |-> IF x = k THEN v ELSE m[x]]

MapDel(m, k) == [x \in DOMAIN m \ {k} |-> m[x]]

Min2(a, b) == IF a < b THEN a ELSE b

\* sum() of a list of numbers
RECURSIVE SumOf(_)
SumOf(values) == IF values = <<>> THEN 0 ELSE values[1] + SumOf(Tail(values))

(***************************************************************************)
(* QueryDecomposer._generate_task_id formats the counter as task_%03d.     *)
(***************************************************************************)
\* variant: the counter is formatted modulo 4
FormatTaskIdWrapped(n) ==
    "task_00" \o ToString(n % 4)

FormatTaskId(n) ==
    "task_" \o (IF n < 10 THEN "00" ELSE IF n < 100 THEN "0" ELSE "") \o ToString(n)

(***************************************************************************)
(* ExecutionPlan.__post_init__ formats the clock reading into the id.      *)
(***************************************************************************)
FormatExecutionId(t) == "exec_" \o ToString(t)

(***************************************************************************)
(* ToolRegistry and AgentTool.                                             *)
(***************************************************************************)
BuiltinTools == {"database_query", "calculation", "text_processing"}

\* ToolRegistry.get_tool: the tool, or None for an unknown name
get_tool(name) == name \in DOMAIN tools

\* the synchronous head of execute_tool + safe_execute: the name is looked
\* up; an unknown name raises before any counter is touched; otherwise the
\* registry's usage counter and then the tool's execution_count go up
ExecuteToolRaises(name) == ~get_tool(name)

\* variant: the use is not counted
UsageNotCounted(stats, name) == stats

\* variant: the use is counted twice
UsageCountedTwice(stats, name) == [stats EXCEPT ![name] = @ + 2]

UsageAfterExecute(stats, name) == [stats EXCEPT ![name] = @ + 1]

\* variant: registering a name again keeps its counter
UsageKeptOnRegister(stats, name) ==
    IF name \in DOMAIN stats THEN stats ELSE MapPut(stats, name, 0)

\* register_tool: self.tool_usage_stats[tool.name] = 0
UsageAfterRegister(stats, name) == MapPut(stats, name, 0)

\* list(self.tools.keys()), as a set
get_tool_names == DOMAIN tools

\* self.tool_usage_stats.copy()
get_usage_stats == tool_usage_stats

\* variant: safe_execute leaves execution_count alone
CountKept(tl, name) == tl

CountAfterSafeExecute(tl, name) == [tl EXCEPT ![name] = @ + 1]

ToolNotFoundMessage(name) == "Tool '" \o name \o "' not found"

\* what safe_execute returns: the domain logic's outcome folded into a map,
\* success=True when it returned and success=False when it raised
NoResult == [set |-> FALSE, success |-> FALSE]

SafeExecuteResult(domain_ok) == [set |-> TRUE, success |-> domain_ok]

(***************************************************************************)
(* SubTask, TaskExecution and the families of plans the model executes.    *)
(* A sub-task's dependencies is a list of ids; a decomposition parsed from *)
(* the LLM's JSON may carry a value that is no list (task_data.get), which *)
(* deps_iterable = FALSE stands for.                                       *)
(***************************************************************************)
MissingId == FormatTaskId(0)

RegisteredChoice == "text_processing"
UnregisteredChoice == "response_synthesis"

PlanTaskIds(n) == {FormatTaskId(j) : j \in 1..n}

SubTaskChoices(n, i) ==
    {[id |-> FormatTaskId(i), tool_name |-> t, dependencies |-> D,
      deps_iterable |-> TRUE, priority |-> p] :
        t \in {RegisteredChoice, UnregisteredChoice},
        D \in SUBSET ((PlanTaskIds(n) \cup {MissingId}) \ {FormatTaskId(i)}),
        p \in Priorities}
    \cup
    {[id |-> FormatTaskId(i), tool_name |-> RegisteredChoice, dependencies |-> {},
      deps_iterable |-> FALSE, priority |-> 1]}

RECURSIVE SubTaskPrefixes(_, _)
\* the lists of the first i sub-tasks of a plan of n
SubTaskPrefixes(n, i) ==
    IF i = 0 THEN {<<>>}
    ELSE {Append(s, t) : s \in SubTaskPrefixes(n, i - 1), t \in SubTaskChoices(n, i)}

SubTaskLists(n) == SubTaskPrefixes(n, n)

\* TaskExecution(task=task): the dataclass defaults
NewTaskExecution ==
    [status |-> "pending", retry_count |-> 0, result |-> NoResult,
     error |-> "", started |-> FALSE]

NoPlan ==
    [serial |-> 0, execution_id |-> "", sub_tasks |-> <<>>,
     task_executions |-> <<>>, overall_status |-> "pending"]

\* ExecutionPlan(decomposition=...): __post_init__ reads the clock for the id
\* and builds one TaskExecution per sub-task
NewExecutionPlan(serial, subs, t) ==
    [serial |-> serial, execution_id |-> FormatExecutionId(t), sub_tasks |-> subs,
     task_executions |-> [i \in DOMAIN subs |-> NewTaskExecution],
     overall_status |-> "pending"]

NoReturn ==
    [kind |-> "none", success |-> FALSE, tasks_executed |-> 0, result |-> <<>>,
     error |-> "", partial_results |-> {}]

(***************************************************************************)
(* AgentOrchestrator._get_ready_tasks                                      *)
(***************************************************************************)
\* variant: a task in running_tasks is not passed over
SkipsFinishedOnly(sub, te, running) == te.status \in {"completed", "failed"}

\* "already completed, failed, or running": the continue of the for loop
SkippedByReady(sub, te, running) ==
    te.status \in {"completed", "failed"} \/ sub.id \in DOMAIN running

\* variant: the dependencies are not looked at
DependenciesIgnored(deps, completed) == TRUE

\* variant: any() in place of all()
AnyDependencySatisfied(deps, completed) == deps = {} \/ deps \cap completed # {}

\* all(dep_id in completed_tasks for dep_id in task.dependencies)
DependenciesSatisfied(deps, completed) == deps \subseteq completed

\* iterating a dependencies value that is no list raises TypeError
GetReadyRaises(subs, te, running) ==
    \E i \in DOMAIN subs :
        ~SkippedByReady(subs[i], te[i], running) /\ ~subs[i].deps_iterable

IndexSeq(n) == [i \in 1..n |-> i]

\* variant: the ready list is left in plan order
PlanOrder(seq, subs) == seq

RECURSIVE SortByPriority(_, _)
\* ready.sort(key=priority, reverse=True): list.sort is stable
SortByPriority(seq, subs) ==
    IF seq = <<>> THEN <<>>
    ELSE LET top == CHOOSE p \in {subs[seq[k]].priority : k \in DOMAIN seq} :
                        \A k \in DOMAIN seq : subs[seq[k]].priority <= p
             IsTop(i) == subs[i].priority = top
             NotTop(i) == subs[i].priority # top
         IN SelectSeq(seq, IsTop) \o SortByPriority(SelectSeq(seq, NotTop), subs)

\* the ready list, as indices into task_executions
get_ready_tasks(subs, te, completed, running) ==
    LET IsReady(i) == /\ ~SkippedByReady(subs[i], te[i], running)
                      /\ DependenciesSatisfied(subs[i].dependencies, completed)
    IN SortByPriority(SelectSeq(IndexSeq(Len(subs)), IsReady), subs)

(***************************************************************************)
(* AgentOrchestrator._execute_tasks_with_dependencies: one pass of the     *)
(* while loop from its head to the point where it suspends or leaves.      *)
(***************************************************************************)
\* variant: every ready task is started
StartAllReady(n_running, ceiling, n_ready) == n_ready

\* how many times "while len(running_tasks) < max and ready_tasks" iterates
StartCount(n_running, ceiling, n_ready) ==
    IF n_running < ceiling THEN Min2(ceiling - n_running, n_ready) ELSE 0

NewAsyncTask == [state |-> "created", raised |-> FALSE, result |-> NoResult, error |-> ""]

\* outcome: "wait" (suspended in asyncio.wait), "exit" (the while condition is
\* false, or the deadlock break), "raise" (an exception leaves the loop),
\* "spin" (nothing running, nothing started, the loop goes round unchanged)
LoopIteration(subs, te, completed, running, ceiling) ==
    IF ~(Cardinality(completed) < Len(te))
    THEN [outcome |-> "exit", te |-> te, running |-> running, started |-> {}]
    ELSE IF GetReadyRaises(subs, te, running)
    THEN [outcome |-> "raise", te |-> te, running |-> running, started |-> {}]
    ELSE
      LET ready == get_ready_tasks(subs, te, completed, running)
          k == StartCount(Cardinality(DOMAIN running), ceiling, Len(ready))
          started == {ready[j] : j \in 1..k}
          startedIds == {subs[i].id : i \in started}
          te2 == [i \in DOMAIN te |->
                    IF i \in started
                    THEN [te[i] EXCEPT !.status = "running", !.started = TRUE]
                    ELSE te[i]]
          running2 == [id \in DOMAIN running \cup startedIds |->
                         IF id \in startedIds THEN NewAsyncTask ELSE running[id]]
      IN [outcome |-> IF DOMAIN running2 # {} THEN "wait"
                      ELSE IF k = Len(ready) THEN "exit" ELSE "spin",
          te |-> te2, running |-> running2, started |-> started]

\* variant: one more retry than max_retries
RetryOnceMore(te) == te.retry_count < MaxRetries + 1

\* "Decide whether to retry or skip"
RetryAllowed(te) == te.retry_count < MaxRetries

\* variant: every finished asyncio task joins completed_tasks
JoinsCompletedAlways(te, task) == TRUE

\* variant: a task that raised never joins completed_tasks
JoinsCompletedOnSuccess(te, task) == ~task.raised

\* a finished asyncio task joins completed_tasks when it returned, and when
\* it raised with its retries exhausted
JoinsCompleted(te, task) == ~task.raised \/ ~RetryAllowed(te)

\* the for loop over the done set of asyncio.wait
ProcessDone(subs, te, completed, running, res) ==
    LET done == {id \in DOMAIN running : running[id].state = "done"}
        IndexOf(id) == CHOOSE i \in DOMAIN subs : subs[i].id = id
        te2 == [i \in DOMAIN te |->
                  IF subs[i].id \notin done THEN te[i]
                  ELSE LET t == running[subs[i].id] IN
                       IF ~t.raised
                       THEN [te[i] EXCEPT !.result = t.result, !.status = "completed"]
                       ELSE IF RetryAllowed(te[i])
                       THEN [te[i] EXCEPT !.error = t.error, !.retry_count = @ + 1,
                                          !.status = "pending"]
                       ELSE [te[i] EXCEPT !.error = t.error, !.status = "failed"]]
    IN [te |-> te2,
        completed |-> completed \cup
                        {id \in done : JoinsCompleted(te[IndexOf(id)], running[id])},
        running |-> [id \in DOMAIN running \ done |-> running[id]],
        results |-> [id \in DOMAIN res \cup {x \in done : ~running[x].raised} |->
                       IF id \in done THEN running[id].result ELSE res[id]]]

\* variant: every dependency is taken to have a result
ResultsReadOfAll(dependencies, previous_results) == dependencies

\* _prepare_task_parameters: the dependencies whose result is looked at,
\* "if dep_id in previous_results"
ResultsRead(dependencies, previous_results) == dependencies \cap DOMAIN previous_results

\* one assignment to task_execution.status, with retry_count before and after
StatusChange(id, from, to, before, after) ==
    [task |-> id, from |-> from, to |-> to, retry_count |-> before,
     retry_after |-> after]

\* the log of a new plan
NewLog(subs) ==
    [changes |-> {},
     dispatched |-> [id \in {subs[i].id : i \in DOMAIN subs} |-> 0],
     removed |-> [id \in {subs[i].id : i \in DOMAIN subs} |-> 0],
     joined |-> [id \in {subs[i].id : i \in DOMAIN subs} |-> 0],
     read |-> [id \in {subs[i].id : i \in DOMAIN subs} |-> {}],
     wave |-> [started |-> {}, statuses |-> <<>>, completed |-> {}, running |-> {}]]

\* the log after the for loop over the done set: status = COMPLETED, or
\* status = FAILED and then, on a retry, status = PENDING; completed_tasks.add;
\* del running_tasks[task_id]
LogDone(log, subs, te, running) ==
    LET done == {id \in DOMAIN running : running[id].state = "done"}
        at == {i \in DOMAIN subs : subs[i].id \in done}
        r(i) == te[i].retry_count
    IN [changes |-> log.changes
          \cup {StatusChange(subs[i].id, te[i].status, "completed", r(i), r(i)) :
                   i \in {j \in at : ~running[subs[j].id].raised}}
          \cup {StatusChange(subs[i].id, te[i].status, "failed", r(i), r(i)) :
                   i \in {j \in at : running[subs[j].id].raised}}
          \cup {StatusChange(subs[i].id, "failed", "pending", r(i), r(i) + 1) :
                   i \in {j \in at : running[subs[j].id].raised /\ RetryAllowed(te[j])}},
        dispatched |-> log.dispatched,
        removed |-> [id \in DOMAIN log.removed |->
                       log.removed[id] + (IF id \in done THEN 1 ELSE 0)],
        joined |-> [id \in DOMAIN log.joined |->
                      log.joined[id]
                      + Cardinality({i \in at : /\ subs[i].id = id
                                                /\ JoinsCompleted(te[i], running[id])})],
        read |-> log.read,
        wave |-> log.wave]

\* the log after the inner while loop: status = RUNNING for each task started
LogStarted(log, subs, te, started) ==
    [log EXCEPT
        !.changes = @ \cup {StatusChange(subs[i].id, te[i].status, "running",
                                         te[i].retry_count, te[i].retry_count) :
                               i \in started},
        !.dispatched = [id \in DOMAIN @ |->
                          @[id] + Cardinality({i \in started : subs[i].id = id})]]

\* the log after one pass of the inner while loop: what the loop head saw
\* (statuses, completed_tasks, running_tasks) and the tasks it then started
LogWave(log, te, completed, running, started) ==
    [log EXCEPT !.wave = [started |-> started,
                          statuses |-> [i \in DOMAIN te |-> te[i].status],
                          completed |-> completed,
                          running |-> DOMAIN running]]

(***************************************************************************)
(* AgentOrchestrator._synthesize_results, _get_partial_results,            *)
(* _update_performance_metrics and the return / except / finally of        *)
(* execute_query_plan.                                                     *)
(***************************************************************************)
\* the tasks whose result enters successful_results, in plan order
SuccessfulResults(subs, te) ==
    LET Kept(i) == /\ te[i].status = "completed"
                   /\ te[i].result.set
                   /\ te[i].result.success
    IN SelectSeq(IndexSeq(Len(subs)), Kept)

\* variant: len(completed_tasks) in place of the count of COMPLETED
TasksAccounted(te) ==
    Cardinality({i \in DOMAIN te : te[i].status \in {"completed", "failed"}})

\* len([te for te in task_executions if te.status == COMPLETED])
TasksExecuted(te) == Cardinality({i \in DOMAIN te : te[i].status = "completed"})

PartialResults(subs, te) ==
    {subs[i].id : i \in {j \in DOMAIN te : te[j].status = "completed" /\ te[j].result.set}}

\* the rolling average of execution times is left out: no duration is modelled
UpdatePerformanceMetrics(metrics, overall_status) ==
    [metrics EXCEPT
        !.total_executions = @ + 1,
        !.successful_executions = IF overall_status = "completed" THEN @ + 1 ELSE @,
        !.failed_executions = IF overall_status = "completed" THEN @ ELSE @ + 1]

HistoryEntry(p) ==
    [serial |-> p.serial, execution_id |-> p.execution_id,
     overall_status |-> p.overall_status]

\* execution_history[-100:] once it is longer than 100
TrimHistory(h) ==
    IF Len(h) > HistoryCap THEN SubSeq(h, Len(h) - HistoryCap + 1, Len(h)) ELSE h

\* the code after the loop has left (raised = FALSE) or thrown (raised = TRUE):
\* synthesis, the metrics update (made in the try block only), the result
\* map, then the finally block, in which
\* "del self.active_executions[id]" raises KeyError when the entry is gone
FinishCall(p, te, raised, active, history, metrics) ==
    LET p2 == [p EXCEPT !.task_executions = te,
                        !.overall_status = IF raised THEN "failed" ELSE "completed"]
        metrics2 == IF ~raised
                    THEN UpdatePerformanceMetrics(metrics, p2.overall_status)
                    ELSE metrics
        value == IF raised
                 THEN [kind |-> "return", success |-> FALSE, tasks_executed |-> 0,
                       result |-> <<>>, error |-> "TypeError",
                       partial_results |-> PartialResults(p.sub_tasks, te)]
                 ELSE [kind |-> "return", success |-> TRUE,
                       tasks_executed |-> TasksExecuted(te),
                       result |-> SuccessfulResults(p.sub_tasks, te),
                       error |-> "", partial_results |-> {}]
        history2 == Append(history, HistoryEntry(p2))
        present == p.execution_id \in DOMAIN active
    IN [plan |-> p2,
        metrics |-> metrics2,
        active |-> IF present THEN MapDel(active, p.execution_id) ELSE active,
        history |-> IF present THEN TrimHistory(history2) ELSE history2,
        ret |-> IF present THEN value
                ELSE [NoReturn EXCEPT !.kind = "raise", !.error = "KeyError"]]

(***************************************************************************)
(* Initial state: ChatbotService._initialize_agentic_system registers the  *)
(* three built-in tools and builds one decomposer and one orchestrator.    *)
(***************************************************************************)
NoToolCall == [name |-> "", kind |-> "none"]

NoDirectCall == [tool |-> "", via |-> "none"]

NoAnalysis == [query |-> <<>>, query_type |-> "none", doubled_score |-> 0]

NoWave == [started |-> {}, statuses |-> <<>>, completed |-> {}, running |-> {}]

NoLog == [changes |-> {}, dispatched |-> EmptyMap, removed |-> EmptyMap,
          joined |-> EmptyMap, read |-> EmptyMap, wave |-> NoWave]

NoPreparation ==
    [done |-> FALSE, task_type |-> "", declared |-> EmptyMap, dependencies |-> <<>>,
     previous_results |-> EmptyMap, context |-> EmptyMap,
     declared_after |-> EmptyMap, parameters |-> EmptyMap]

NoDecomposition ==
    [query_type |-> "none", sub_tasks |-> <<>>, expected_response_format |-> ""]

InitCalls ==
    /\ pc = [c \in Calls |-> "idle"]
    /\ plan = [c \in Calls |-> NoPlan]
    /\ completed_tasks = [c \in Calls |-> {}]
    /\ running_tasks = [c \in Calls |-> EmptyMap]
    /\ results = [c \in Calls |-> EmptyMap]
    /\ ret = [c \in Calls |-> NoReturn]
    /\ prepared = NoPreparation
    /\ task_log = [c \in Calls |-> NoLog]

InitOrchestrator ==
    /\ max_concurrent_tasks \in Ceilings
    /\ active_executions = EmptyMap
    /\ execution_history = <<>>
    /\ performance_metrics =
         [total_executions |-> 0, successful_executions |-> 0,
          failed_executions |-> 0, tool_usage_count |-> EmptyMap]
    /\ now = 0
    /\ plans_created = 0

InitDecomposer ==
    /\ task_id_counter = 0
    /\ decomposition = NoDecomposition
    /\ decompositions_made = 0
    /\ analysis = NoAnalysis
    /\ suspended = 0
    /\ issued = {}

Init ==
    /\ tools = [n \in BuiltinTools |-> 0]
    /\ tool_usage_stats = [n \in BuiltinTools |-> 0]
    /\ registry_outcome = NoToolCall
    /\ registry_calls = 0
    /\ tool_call = NoDirectCall
    /\ calls_since_register = tool_usage_stats
    /\ InitOrchestrator
    /\ InitCalls
    /\ InitDecomposer

(***************************************************************************)
(* execute_query_plan                                                      *)
(***************************************************************************)
\* run the while loop from its head with the given locals, up to the next
\* suspension or to the end of the call
Proceed(c, p, te, completed, running, res, active) ==
    LET it == LoopIteration(p.sub_tasks, te, completed, running, max_concurrent_tasks)
    IN /\ completed_tasks' = [completed_tasks EXCEPT ![c] = completed]
       /\ running_tasks' = [running_tasks EXCEPT ![c] = it.running]
       /\ results' = [results EXCEPT ![c] = res]
       /\ IF it.outcome \in {"wait", "spin"}
          THEN /\ pc' = [pc EXCEPT ![c] = IF it.outcome = "wait" THEN "waiting"
                                          ELSE "spinning"]
               /\ plan' = [plan EXCEPT ![c] =
                            [p EXCEPT !.task_executions = it.te,
                                      !.overall_status = "running"]]
               /\ ret' = [ret EXCEPT ![c] = NoReturn]
               /\ active_executions' = active
               /\ UNCHANGED <<execution_history, performance_metrics>>
          ELSE LET fin == FinishCall(p, it.te, it.outcome = "raise", active,
                                     execution_history, performance_metrics)
               IN /\ pc' = [pc EXCEPT ![c] = IF fin.ret.kind = "raise" THEN "raised"
                                             ELSE "returned"]
                  /\ plan' = [plan EXCEPT ![c] = fin.plan]
                  /\ ret' = [ret EXCEPT ![c] = fin.ret]
                  /\ active_executions' = fin.active
                  /\ execution_history' = fin.history
                  /\ performance_metrics' = fin.metrics

\* a caller awaits execute_query_plan(decomposition): the plan is built and
\* entered into active_executions, and the loop runs to its first suspension
StartCall(c, subs, limit) ==
    /\ pc[c] \in {"idle", "returned", "raised"}
    /\ plans_created < limit
    /\ plans_created' = plans_created + 1
    /\ LET p == NewExecutionPlan(plans_created + 1, subs, now)
       IN /\ Proceed(c, p, p.task_executions, {}, EmptyMap, EmptyMap,
                     MapPut(active_executions, p.execution_id, p.serial))
          /\ task_log' = [task_log EXCEPT ![c] =
                LET started == LoopIteration(subs, p.task_executions, {}, EmptyMap,
                                             max_concurrent_tasks).started
                IN LogWave(LogStarted(NewLog(subs), subs, p.task_executions, started),
                           p.task_executions, {}, EmptyMap, started)]
    /\ UNCHANGED <<registryVars, max_concurrent_tasks, now, decompVars, paramVars>>

\* the event loop starts the asyncio task of _execute_single_task: the
\* parameters are prepared from the results recorded so far and execute_tool
\* is called; it raises for an unknown tool, and otherwise counts the use and
\* awaits the tool
TaskRun(c, id) ==
    /\ id \in DOMAIN running_tasks[c]
    /\ running_tasks[c][id].state = "created"
    /\ LET i == CHOOSE j \in DOMAIN plan[c].sub_tasks : plan[c].sub_tasks[j].id = id
           name == plan[c].sub_tasks[i].tool_name
       IN /\ task_log' = [task_log EXCEPT ![c].read[id] =
                             ResultsRead(plan[c].sub_tasks[i].dependencies, results[c])]
          /\ IF ExecuteToolRaises(name)
             THEN /\ running_tasks' = [running_tasks EXCEPT ![c][id] =
                        [state |-> "done", raised |-> TRUE, result |-> NoResult,
                         error |-> ToolNotFoundMessage(name)]]
                  /\ UNCHANGED <<tools, tool_usage_stats, calls_since_register>>
             ELSE /\ running_tasks' = [running_tasks EXCEPT ![c][id].state = "in_tool"]
                  /\ tool_usage_stats' = UsageAfterExecute(tool_usage_stats, name)
                  /\ tools' = CountAfterSafeExecute(tools, name)
                  /\ calls_since_register' =
                        [calls_since_register EXCEPT ![name] = @ + 1]
    /\ UNCHANGED <<registry_outcome, registry_calls, tool_call, orchVars, pc, plan,
                   completed_tasks, results, ret, decompVars, paramVars>>

\* the tool's domain logic returns (domain_ok) or raises: safe_execute turns
\* either into a map, and _execute_single_task counts the tool and returns it
ToolReturn(c, id, domain_ok) ==
    /\ id \in DOMAIN running_tasks[c]
    /\ running_tasks[c][id].state = "in_tool"
    /\ LET i == CHOOSE j \in DOMAIN plan[c].sub_tasks : plan[c].sub_tasks[j].id = id
           name == plan[c].sub_tasks[i].tool_name
           count == performance_metrics.tool_usage_count
       IN /\ running_tasks' = [running_tasks EXCEPT ![c][id] =
                [state |-> "done", raised |-> FALSE,
                 result |-> SafeExecuteResult(domain_ok), error |-> ""]]
          /\ performance_metrics' =
                [performance_metrics EXCEPT !.tool_usage_count =
                    MapPut(count, name,
                           IF name \in DOMAIN count THEN count[name] + 1 ELSE 1)]
    /\ UNCHANGED <<registryVars, max_concurrent_tasks, active_executions,
                   execution_history, now, plans_created, pc, plan, completed_tasks,
                   results, ret, task_log, decompVars, paramVars>>

\* asyncio.wait(..., FIRST_COMPLETED) returns: every finished task is
\* processed and the loop goes round
Wake(c) ==
    /\ pc[c] = "waiting"
    /\ \E id \in DOMAIN running_tasks[c] : running_tasks[c][id].state = "done"
    /\ LET d == ProcessDone(plan[c].sub_tasks, plan[c].task_executions,
                            completed_tasks[c], running_tasks[c], results[c])
       IN /\ Proceed(c, plan[c], d.te, d.completed, d.running, d.results,
                     active_executions)
          /\ task_log' = [task_log EXCEPT ![c] =
                LET started == LoopIteration(plan[c].sub_tasks, d.te, d.completed,
                                             d.running, max_concurrent_tasks).started
                IN LogWave(LogStarted(LogDone(@, plan[c].sub_tasks,
                                              plan[c].task_executions, running_tasks[c]),
                                      plan[c].sub_tasks, d.te, started),
                           d.te, d.completed, d.running, started)]
    /\ UNCHANGED <<registryVars, max_concurrent_tasks, now, plans_created, decompVars, paramVars>>

\* the clock moves on
Tick ==
    /\ now < MaxClock
    /\ now' = now + 1
    /\ UNCHANGED <<registryVars, max_concurrent_tasks, active_executions,
                   execution_history, performance_metrics, plans_created, callVars,
                   decompVars, paramVars>>

(***************************************************************************)
(* Spec: one execute_query_plan call on any plan of up to MaxTasks tasks.  *)
(***************************************************************************)
StartAnyPlan ==
    /\ plans_created = 0
    /\ \E n \in 0..MaxTasks : \E subs \in SubTaskLists(n) : StartCall(1, subs, 1)

Next ==
    \/ StartAnyPlan
    \/ \E id \in DOMAIN running_tasks[1] : TaskRun(1, id)
    \/ \E id \in DOMAIN running_tasks[1] : \E ok \in BOOLEAN : ToolReturn(1, id, ok)
    \/ Wake(1)

Spec == Init /\ [][Next]_vars

\* the event loop runs every runnable asyncio task, every tool invocation
\* returns or raises, and asyncio.wait returns once a task is done
FairSpec ==
    /\ Spec
    /\ WF_vars(\E id \in DOMAIN running_tasks[1] : TaskRun(1, id))
    /\ WF_vars(\E id \in DOMAIN running_tasks[1] : \E ok \in BOOLEAN : ToolReturn(1, id, ok))
    /\ WF_vars(Wake(1))

(***************************************************************************)
(* QueryDecomposer.  A query is given by what the decomposer reads of it:  *)
(* the QueryType the analyzer returned and which entity words it contains  *)
(* ("order" stands for order/pedido, "product" for product/producto,       *)
(* "customer" for customer/cliente).                                       *)
(***************************************************************************)
QueryTypes ==
    {"simple_informational", "single_entity_lookup", "multi_entity_lookup",
     "comparative_analysis", "analytical_aggregation", "complex_multi_step"}

EntityWords == {"order", "purchase", "product", "item", "customer"}

\* the entity words are read by the two lookup strategies only
Queries ==
    {q \in [query_type : QueryTypes, words : SUBSET EntityWords] :
        q.query_type \in {"single_entity_lookup", "multi_entity_lookup"} \/ q.words = {}}

QueryText == "<query>"

\* SubTask(...): dependencies defaults to [] in __post_init__
SubTask(id, type, tool_name, parameters, dependencies, priority) ==
    [id |-> id, type |-> type, tool_name |-> tool_name, parameters |-> parameters,
     dependencies |-> dependencies, deps_iterable |-> TRUE, priority |-> priority]

TextTask(id, operation, dependencies, priority) ==
    SubTask(id, "text_processing", "text_processing",
            [operation |-> operation, text |-> QueryText], dependencies, priority)

\* the closing format_response task; the lookup strategies pass no text
SynthesisTask(id, format_type, dependencies, priority) ==
    SubTask(id, "response_synthesis", "text_processing",
            [operation |-> "format_response", format_type |-> format_type],
            dependencies, priority)

DatabaseTask(id, query_type, dependencies, priority) ==
    SubTask(id, "database_query", "database_query",
            [query_type |-> query_type, params |-> EmptyMap], dependencies, priority)

StatisticsTask(id, dependencies, priority) ==
    SubTask(id, "calculation", "calculation",
            [operation |-> "statistics", data |-> <<>>], dependencies, priority)

\* the dependency ids written as literals in the strategies
HardcodedId(k) == FormatTaskId(k)

\* _decompose_simple_query; c is task_id_counter before the call
decompose_simple_query(q, c) ==
    << TextTask(FormatTaskId(c + 1), "extract_keywords", {}, 1),
       SubTask(FormatTaskId(c + 2), "response_synthesis", "text_processing",
               [operation |-> "format_response", text |-> QueryText,
                format_type |-> "default"],
               {HardcodedId(1)}, 2) >>

\* _decompose_lookup_query
decompose_lookup_query(q, c) ==
    << TextTask(FormatTaskId(c + 1), "extract_entities", {}, 1),
       DatabaseTask(FormatTaskId(c + 2),
                    IF q.words \cap {"order", "purchase"} # {} THEN "order_lookup"
                    ELSE IF q.words \cap {"product", "item"} # {} THEN "product_search"
                    ELSE "company_policies",
                    {HardcodedId(1)}, 2),
       SynthesisTask(FormatTaskId(c + 3), "structured", {HardcodedId(2)}, 3) >>

\* _decompose_multi_lookup_query
decompose_multi_lookup_query(q, c) ==
    LET wanted == << <<"customer", "customer_analytics">>,
                     <<"order", "order_analytics">>,
                     <<"product", "product_analytics">> >>
        Mentioned(w) == w[1] \in q.words
        found == SelectSeq(wanted, Mentioned)
        kinds == IF found = <<>> THEN << <<"", "business_summary">> >> ELSE found
        db_tasks == [k \in 1..Len(kinds) |->
                       DatabaseTask(FormatTaskId(c + 1 + k), kinds[k][2],
                                    {HardcodedId(1)}, 2)]
    IN << TextTask(FormatTaskId(c + 1), "extract_keywords", {}, 1) >>
       \o db_tasks
       \o << SynthesisTask(FormatTaskId(c + 2 + Len(kinds)), "structured_list",
                           {db_tasks[k].id : k \in 1..Len(kinds)}, 3) >>

\* _decompose_comparative_query
decompose_comparative_query(q, c) ==
    << TextTask(FormatTaskId(c + 1), "extract_keywords", {}, 1),
       DatabaseTask(FormatTaskId(c + 2), "business_summary", {HardcodedId(1)}, 2),
       DatabaseTask(FormatTaskId(c + 3), "business_summary", {HardcodedId(1)}, 2),
       StatisticsTask(FormatTaskId(c + 4), {HardcodedId(2), HardcodedId(3)}, 3),
       SynthesisTask(FormatTaskId(c + 5), "comparison_table", {HardcodedId(4)}, 4) >>

\* _decompose_analytical_query
decompose_analytical_query(q, c) ==
    << TextTask(FormatTaskId(c + 1), "extract_keywords", {}, 1),
       DatabaseTask(FormatTaskId(c + 2), "business_summary", {HardcodedId(1)}, 2),
       StatisticsTask(FormatTaskId(c + 3), {HardcodedId(2)}, 3),
       SynthesisTask(FormatTaskId(c + 4), "analytical_report", {HardcodedId(3)}, 4) >>

\* _heuristic_complex_decomposition
heuristic_complex_decomposition(q, c) ==
    << TextTask(FormatTaskId(c + 1), "extract_entities", {}, 1),
       DatabaseTask(FormatTaskId(c + 2), "business_summary", {HardcodedId(1)}, 2),
       StatisticsTask(FormatTaskId(c + 3), {HardcodedId(2)}, 3),
       SynthesisTask(FormatTaskId(c + 4), "comprehensive_report", {HardcodedId(3)}, 4) >>

(***************************************************************************)
(* The LLM's answer to the decomposition prompt.  kind is "unavailable"    *)
(* (no llm_service, or is_available() is false), "raises" (the call        *)
(* throws), "invalid_json" (json.loads throws) or "tasks" (a JSON array).  *)
(***************************************************************************)
TaskTypeNames == {"database_query", "calculation", "text_processing", "response_synthesis"}

LlmEntries ==
    [tool_name : {"text_processing", "response_synthesis", "web_search"},
     dependencies : {{}, {FormatTaskId(1)}}]

LlmUnavailable == [kind |-> "unavailable", tasks |-> <<>>]

LlmOutcomes ==
    {LlmUnavailable, [kind |-> "raises", tasks |-> <<>>],
     [kind |-> "invalid_json", tasks |-> <<>>]}
    \cup {[kind |-> "tasks", tasks |-> t] :
            t \in {<<>>} \cup {<<e>> : e \in LlmEntries}
                  \cup {<<e, f>> : e \in LlmEntries, f \in LlmEntries}}

\* the first entry whose tool_name is no TaskType name (TaskType[...] raises
\* KeyError there, after the entry's id was generated), or 0
FirstBadEntry(tasks) ==
    LET bad == {k \in DOMAIN tasks : tasks[k].tool_name \notin TaskTypeNames}
    IN IF bad = {} THEN 0 ELSE CHOOSE k \in bad : \A j \in bad : k <= j

\* _decompose_complex_query with _llm_based_decomposition: the sub-tasks and
\* the counter afterwards
decompose_complex_query(q, c, llm) ==
    IF llm.kind = "unavailable"
    THEN [sub_tasks |-> heuristic_complex_decomposition(q, c), counter |-> c + 4]
    ELSE IF llm.kind \in {"raises", "invalid_json"}
    THEN [sub_tasks |-> heuristic_complex_decomposition(q, c), counter |-> c + 4]
    ELSE IF FirstBadEntry(llm.tasks) # 0
    THEN LET used == c + FirstBadEntry(llm.tasks)
         IN [sub_tasks |-> heuristic_complex_decomposition(q, used),
             counter |-> used + 4]
    ELSE [sub_tasks |-> [k \in 1..Len(llm.tasks) |->
                           SubTask(FormatTaskId(c + k), llm.tasks[k].tool_name,
                                   llm.tasks[k].tool_name, EmptyMap,
                                   llm.tasks[k].dependencies, k)],
          counter |-> c + Len(llm.tasks)]

\* decompose_query: the strategy and the format tag chosen by query type
decompose_query(q, c, llm) ==
    LET fixed(tasks, format) ==
            [query_type |-> q.query_type, sub_tasks |-> tasks,
             expected_response_format |-> format, counter |-> c + Len(tasks)]
    IN CASE q.query_type = "simple_informational" ->
              fixed(decompose_simple_query(q, c), "conversational")
         [] q.query_type = "single_entity_lookup" ->
              fixed(decompose_lookup_query(q, c), "structured")
         [] q.query_type = "multi_entity_lookup" ->
              fixed(decompose_multi_lookup_query(q, c), "structured_list")
         [] q.query_type = "comparative_analysis" ->
              fixed(decompose_comparative_query(q, c), "comparison_table")
         [] q.query_type = "analytical_aggregation" ->
              fixed(decompose_analytical_query(q, c), "analytical_report")
         [] OTHER ->
              LET r == decompose_complex_query(q, c, llm)
              IN [query_type |-> q.query_type, sub_tasks |-> r.sub_tasks,
                  expected_response_format |-> "comprehensive_report",
                  counter |-> r.counter]

\* decompose_query on the shared decomposer, after the analysis of the query
DecomposeAnalyzed(q, llm) ==
    /\ decompositions_made < MaxDecompositions
    /\ LET d == decompose_query(q, task_id_counter, llm)
       IN /\ task_id_counter' = d.counter
          /\ decomposition' = [query_type |-> d.query_type, sub_tasks |-> d.sub_tasks,
                               expected_response_format |-> d.expected_response_format]
    /\ decompositions_made' = decompositions_made + 1
    /\ issued' = issued \cup {decomposition.sub_tasks[k].id : k \in DOMAIN decomposition.sub_tasks}
    /\ UNCHANGED <<registryVars, orchVars, callVars, paramVars>>

\* one decompose_query call on a query given by its analysis
Decompose(q, llm) ==
    /\ DecomposeAnalyzed(q, llm)
    /\ UNCHANGED <<analysis, suspended>>

(***************************************************************************)
(* SpecDecompose: decompose_query calls on one decomposer, any LLM answer. *)
(* SpecHeuristic: the same with no LLM available to the decomposer.        *)
(***************************************************************************)
\* only _decompose_complex_query consults the LLM
LlmConsulted(q) ==
    IF q.query_type = "complex_multi_step" THEN LlmOutcomes ELSE {LlmUnavailable}

NextDecompose == \E q \in Queries : \E llm \in LlmConsulted(q) : Decompose(q, llm)

SpecDecompose == Init /\ [][NextDecompose]_vars

NextHeuristic == \E q \in Queries : Decompose(q, LlmUnavailable)

SpecHeuristic == Init /\ [][NextHeuristic]_vars

(***************************************************************************)
(* SpecInterleaved: decompose_query calls on one decomposer that overlap:  *)
(* a call on a complex query with an LLM available suspends in             *)
(* "await generate_response_with_gemini", other calls run meanwhile, and   *)
(* it goes on when the LLM has answered or raised.                         *)
(***************************************************************************)
ComplexQuery == [query_type |-> "complex_multi_step", words |-> {}]

\* a call reaches the await of _llm_based_decomposition
DecomposeSuspend ==
    /\ decompositions_made + suspended < MaxDecompositions
    /\ suspended' = suspended + 1
    /\ UNCHANGED <<task_id_counter, decomposition, decompositions_made, analysis,
                   issued, registryVars, orchVars, callVars, paramVars>>

\* a suspended call goes on with the LLM's answer
DecomposeResume(llm) ==
    /\ suspended > 0
    /\ llm.kind # "unavailable"
    /\ suspended' = suspended - 1
    /\ DecomposeAnalyzed(ComplexQuery, llm)
    /\ UNCHANGED analysis

NextInterleaved ==
    \/ \E q \in Queries : Decompose(q, LlmUnavailable)
    \/ DecomposeSuspend
    \/ \E llm \in LlmOutcomes : DecomposeResume(llm)

SpecInterleaved == Init /\ [][NextInterleaved]_vars

(***************************************************************************)
(* QueryAnalyzer.  A text is the sequence of its characters (the two that  *)
(* are not ASCII are written by name), so that "indicator in query_lower"  *)
(* is the search for a sub-sequence.  Scores are kept doubled: every       *)
(* weight and threshold of the code is a multiple of 0.5.                  *)
(***************************************************************************)
UpperCase == <<"A", "B", "C", "D", "E", "F", "G", "H", "I", "J", "K", "L", "M",
               "N", "O", "P", "Q", "R", "S", "T", "U", "V", "W", "X", "Y", "Z",
               "A_acute">>

LowerCase == <<"a", "b", "c", "d", "e", "f", "g", "h", "i", "j", "k", "l", "m",
               "n", "o", "p", "q", "r", "s", "t", "u", "v", "w", "x", "y", "z",
               "a_acute">>

\* str.lower()
Lower(text) ==
    [i \in DOMAIN text |->
        IF \E k \in DOMAIN UpperCase : UpperCase[k] = text[i]
        THEN LowerCase[CHOOSE k \in DOMAIN UpperCase : UpperCase[k] = text[i]]
        ELSE text[i]]

\* "word in text"
Occurs(word, text) ==
    \E i \in 1..(Len(text) - Len(word) + 1) : SubSeq(text, i, i + Len(word) - 1) = word

\* len(query.split()): the maximal runs of characters that are no space
WordCount(text) ==
    Cardinality({i \in DOMAIN text : text[i] # " " /\ (i = 1 \/ text[i - 1] = " ")})

\* len([s for s in query.split('.') if s.strip()]): the pieces between full
\* stops that hold a character other than a space
SentenceCount(text) ==
    Cardinality({i \in DOMAIN text :
        /\ text[i] \notin {" ", "."}
        /\ \A j \in 1..(i - 1) :
              text[j] \in {" ", "."} \/ (\E k \in (j + 1)..(i - 1) : text[k] = ".")})

\* complexity_indicators, in the order of the dict
IndicatorCategories ==
    <<"comparative", "analytical", "temporal", "aggregative", "multi_entity", "conditional", "relational", "lookup", "status">>

Indicators(category) ==
    CASE category = "comparative" ->
           <<<<"c", "o", "m", "p", "a", "r", "e">>,
             <<"c", "o", "m", "p", "a", "r", "i", "s", "o", "n">>,
             <<"v", "e", "r", "s", "u", "s">>,
             <<"v", "s">>,
             <<"d", "i", "f", "f", "e", "r", "e", "n", "c", "e", " ", "b", "e", "t", "w", "e", "e", "n">>,
             <<"b", "e", "t", "t", "e", "r", " ", "t", "h", "a", "n">>>>
      [] category = "analytical" ->
           <<<<"s", "t", "a", "t", "i", "s", "t", "i", "c", "s">>,
             <<"a", "n", "a", "l", "y", "t", "i", "c", "s">>,
             <<"t", "o", "t", "a", "l">>,
             <<"c", "o", "u", "n", "t">>,
             <<"h", "o", "w", " ", "m", "a", "n", "y">>,
             <<"a", "l", "l">>,
             <<"l", "i", "s", "t", " ", "a", "l", "l">>>>
      [] category = "temporal" ->
           <<<<"l", "a", "s", "t", " ", "m", "o", "n", "t", "h">>,
             <<"t", "h", "i", "s", " ", "y", "e", "a", "r">>,
             <<"s", "i", "n", "c", "e">>,
             <<"u", "n", "t", "i", "l">>,
             <<"b", "e", "t", "w", "e", "e", "n", " ", "d", "a", "t", "e", "s">>,
             <<"h", "i", "s", "t", "o", "r", "y">>>>
      [] category = "aggregative" ->
           <<<<"s", "u", "m", "m", "a", "r", "y">>,
             <<"o", "v", "e", "r", "v", "i", "e", "w">>,
             <<"r", "e", "p", "o", "r", "t">>,
             <<"b", "r", "e", "a", "k", "d", "o", "w", "n">>,
             <<"a", "n", "a", "l", "y", "s", "i", "s">>>>
      [] category = "multi_entity" ->
           <<<<"a", "n", "d">>,
             <<"o", "r">>,
             <<"b", "o", "t", "h">>,
             <<"e", "i", "t", "h", "e", "r">>,
             <<"m", "u", "l", "t", "i", "p", "l", "e">>,
             <<"s", "e", "v", "e", "r", "a", "l">>>>
      [] category = "conditional" ->
           <<<<"i", "f">>,
             <<"w", "h", "e", "n">>,
             <<"w", "h", "e", "r", "e">>,
             <<"i", "n", " ", "c", "a", "s", "e">>,
             <<"d", "e", "p", "e", "n", "d", "i", "n", "g", " ", "o", "n">>>>
      [] category = "relational" ->
           <<<<"r", "e", "l", "a", "t", "e", "d", " ", "t", "o">>,
             <<"a", "s", "s", "o", "c", "i", "a", "t", "e", "d", " ", "w", "i", "t", "h">>,
             <<"l", "i", "n", "k", "e", "d", " ", "t", "o">>,
             <<"c", "o", "n", "n", "e", "c", "t", "e", "d">>>>
      [] category = "lookup" ->
           <<<<"w", "h", "a", "t", " ", "i", "s">>,
             <<"w", "h", "o", " ", "i", "s">>,
             <<"w", "h", "e", "r", "e", " ", "i", "s">>,
             <<"s", "h", "o", "w", " ", "m", "e">>,
             <<"f", "i", "n", "d">>>>
      [] category = "status" ->
           <<<<"s", "t", "a", "t", "u", "s", " ", "o", "f">>,
             <<"s", "t", "a", "t", "e", " ", "o", "f">>,
             <<"c", "u", "r", "r", "e", "n", "t">>,
             <<"n", "o", "w">>>>

\* sum(1 for indicator in indicators if indicator in query_lower)
Matches(category, query_lower) ==
    Cardinality({k \in DOMAIN Indicators(category) :
                    Occurs(Indicators(category)[k], query_lower)})

\* twice the weight of a match of the category: 3.0, 2.0 or 1.0
DoubledWeight(category) ==
    IF category \in {"comparative", "analytical", "temporal", "aggregative"} THEN 6
    ELSE IF category \in {"multi_entity", "conditional", "relational"} THEN 4
    ELSE 2

\* twice the complexity_score of analyze_query, before the cap
DoubledScore(query) ==
    LET query_lower == Lower(query)
        matched == SumOf([k \in DOMAIN IndicatorCategories |->
                            Matches(IndicatorCategories[k], query_lower)
                            * DoubledWeight(IndicatorCategories[k])])
        words == IF WordCount(query) > 15 THEN 4
                 ELSE IF WordCount(query) > 10 THEN 2 ELSE 0
        sentences == IF SentenceCount(query) > 1 THEN SentenceCount(query) * 3 ELSE 0
    IN matched + words + sentences

\* variant: the lookup keywords are looked for before the multi-entity ones
ClassifyLookupFirst(query_lower, doubled_score) ==
    IF Matches("comparative", query_lower) > 0 THEN "comparative_analysis"
    ELSE IF Matches("analytical", query_lower) > 0
    THEN (IF doubled_score > 10 THEN "complex_multi_step" ELSE "analytical_aggregation")
    ELSE IF Matches("lookup", query_lower) > 0 THEN "single_entity_lookup"
    ELSE IF Matches("multi_entity", query_lower) > 0 THEN "multi_entity_lookup"
    ELSE IF doubled_score > 12 THEN "complex_multi_step"
    ELSE IF doubled_score > 6 THEN "multi_entity_lookup"
    ELSE "simple_informational"

\* QueryAnalyzer._classify_query_type
classify_query_type(query_lower, doubled_score) ==
    IF Matches("comparative", query_lower) > 0 THEN "comparative_analysis"
    ELSE IF Matches("analytical", query_lower) > 0
    THEN (IF doubled_score > 10 THEN "complex_multi_step" ELSE "analytical_aggregation")
    ELSE IF Matches("multi_entity", query_lower) > 0 THEN "multi_entity_lookup"
    ELSE IF Matches("lookup", query_lower) > 0 THEN "single_entity_lookup"
    ELSE IF doubled_score > 12 THEN "complex_multi_step"
    ELSE IF doubled_score > 6 THEN "multi_entity_lookup"
    ELSE "simple_informational"

\* QueryAnalyzer.analyze_query: the type, and min(complexity_score, 10.0) doubled
analyze_query(query) ==
    [query |-> query,
     query_type |-> classify_query_type(Lower(query), DoubledScore(query)),
     doubled_score |-> Min2(DoubledScore(query), 20)]

\* what the lookup strategies read of the text
WordsOf(query) ==
    LET In(word) == Occurs(word, Lower(query))
    IN {w \in EntityWords :
          \/ w = "order" /\ (In(<<"o", "r", "d", "e", "r">>) \/ In(<<"p", "e", "d", "i", "d", "o">>))
          \/ w = "purchase" /\ In(<<"p", "u", "r", "c", "h", "a", "s", "e">>)
          \/ w = "product" /\ In(<<"p", "r", "o", "d", "u", "c", "t">>)
          \/ w = "item" /\ In(<<"i", "t", "e", "m">>)
          \/ w = "customer" /\ (In(<<"c", "u", "s", "t", "o", "m", "e", "r">>)
                                \/ In(<<"c", "l", "i", "e", "n", "t", "e">>))}

\* "(inverted ?)Cu(a acute)ntos pedidos y clientes tenemos?"
CountQuery ==
    <<"inverted_question", "C", "u", "a_acute", "n", "t", "o", "s", " ", "p",
      "e", "d", "i", "d", "o", "s", " ", "y", " ", "c",
      "l", "i", "e", "n", "t", "e", "s", " ", "t", "e",
      "n", "e", "m", "o", "s", "?">>

\* "How many orders and customers do we have?"
HowManyQuery ==
    <<"H", "o", "w", " ", "m", "a", "n", "y", " ", "o",
      "r", "d", "e", "r", "s", " ", "a", "n", "d", " ",
      "c", "u", "s", "t", "o", "m", "e", "r", "s", " ",
      "d", "o", " ", "w", "e", " ", "h", "a", "v", "e",
      "?">>

\* "show me order ORD001"
ShowOrderQuery ==
    <<"s", "h", "o", "w", " ", "m", "e", " ", "o", "r",
      "d", "e", "r", " ", "O", "R", "D", "0", "0", "1">>

\* "hola"
GreetingQuery ==
    <<"h", "o", "l", "a">>

\* "compare item a vs item b"
CompareQuery ==
    <<"c", "o", "m", "p", "a", "r", "e", " ", "i", "t",
      "e", "m", " ", "a", " ", "v", "s", " ", "i", "t",
      "e", "m", " ", "b">>

\* "total sales"
TotalQuery ==
    <<"t", "o", "t", "a", "l", " ", "s", "a", "l", "e",
      "s">>

\* "both products"
BothQuery ==
    <<"b", "o", "t", "h", " ", "p", "r", "o", "d", "u",
      "c", "t", "s">>

\* "tell me. please. thanks. bye. ok"
LongQuery ==
    <<"t", "e", "l", "l", " ", "m", "e", ".", " ", "p",
      "l", "e", "a", "s", "e", ".", " ", "t", "h", "a",
      "n", "k", "s", ".", " ", "b", "y", "e", ".", " ",
      "o", "k">>

\* "what is this"
WhatIsQuery ==
    <<"w", "h", "a", "t", " ", "i", "s", " ", "t", "h",
      "i", "s">>

\* "since when"
SinceWhenQuery ==
    <<"s", "i", "n", "c", "e", " ", "w", "h", "e", "n">>

\* "compare all vs total count"
ManyKeywordsQuery ==
    <<"c", "o", "m", "p", "a", "r", "e", " ", "a", "l",
      "l", " ", "v", "s", " ", "t", "o", "t", "a", "l",
      " ", "c", "o", "u", "n", "t">>

TextQueries ==
    {CountQuery, HowManyQuery, ShowOrderQuery, GreetingQuery, CompareQuery, TotalQuery, BothQuery, LongQuery,
     WhatIsQuery, SinceWhenQuery, ManyKeywordsQuery}

\* analyze_query and the entity words of each text, computed once
Analyses == [query \in TextQueries |-> analyze_query(query)]

TextWords == [query \in TextQueries |-> WordsOf(query)]

\* one decompose_query(query) call on the shared decomposer
DecomposeText(query, llm) ==
    /\ analysis' = Analyses[query]
    /\ suspended' = suspended
    /\ DecomposeAnalyzed([query_type |-> Analyses[query].query_type,
                          words |-> TextWords[query]], llm)

(***************************************************************************)
(* SpecAnalyze: decompose_query calls on texts, with any answer of the LLM *)
(***************************************************************************)
NextAnalyze ==
    \E query \in TextQueries :
        \E llm \in LlmConsulted(Analyses[query]) :
            DecomposeText(query, llm)

SpecAnalyze == Init /\ [][NextAnalyze]_vars

(***************************************************************************)
(* SpecOrchestrator: up to MaxCalls execute_query_plan calls at a time on  *)
(* one orchestrator, MaxExecutions in all, while the clock may or may not  *)
(* advance between them.  The plans are lists of independent tasks.        *)
(***************************************************************************)
IndependentPlans ==
    UNION {{s \in SubTaskLists(n) :
              \A i \in 1..n : /\ s[i].dependencies = {}
                               /\ s[i].priority = 1
                               /\ s[i].tool_name = RegisteredChoice} :
           n \in 0..MaxTasks}

StartConcurrent(c) ==
    /\ plans_created < MaxExecutions
    /\ \E subs \in IndependentPlans : StartCall(c, subs, MaxExecutions)

NextOrchestrator ==
    \/ \E c \in Calls : StartConcurrent(c)
    \/ \E c \in Calls : \E id \in DOMAIN running_tasks[c] : TaskRun(c, id)
    \/ \E c \in Calls : \E id \in DOMAIN running_tasks[c] :
          \E ok \in BOOLEAN : ToolReturn(c, id, ok)
    \/ \E c \in Calls : Wake(c)
    \/ Tick

SpecOrchestrator == Init /\ [][NextOrchestrator]_vars

(***************************************************************************)
(* SpecRegistry: register_tool and execute_tool called directly on a       *)
(* registry that starts empty (ToolRegistry.__init__).                     *)
(***************************************************************************)
ToolNames == {"database_query", "calculation", "web_search"}

InitRegistry ==
    /\ tools = EmptyMap
    /\ tool_usage_stats = EmptyMap
    /\ registry_outcome = NoToolCall
    /\ registry_calls = 0
    /\ tool_call = NoDirectCall
    /\ calls_since_register = tool_usage_stats
    /\ InitOrchestrator
    /\ InitCalls
    /\ InitDecomposer

\* register_tool(tool) with a newly built tool of that name
RegisterTool(name) ==
    /\ tools' = MapPut(tools, name, 0)
    /\ tool_usage_stats' = UsageAfterRegister(tool_usage_stats, name)
    /\ calls_since_register' =
          [n \in DOMAIN calls_since_register \cup {name} |->
              IF n = name THEN 0 ELSE calls_since_register[n]]
    /\ UNCHANGED <<registry_outcome, registry_calls, tool_call, orchVars, callVars,
                   decompVars, paramVars>>

\* await execute_tool(name) up to the tool's domain logic: an unknown name
\* raises; otherwise the use is counted and safe_execute awaits the tool
ExecuteToolCall(name) ==
    /\ registry_calls < MaxToolCalls
    /\ registry_outcome.kind # "in_tool"
    /\ registry_calls' = registry_calls + 1
    /\ IF ExecuteToolRaises(name)
       THEN /\ registry_outcome' = [name |-> name, kind |-> "raised"]
            /\ UNCHANGED <<tools, tool_usage_stats, calls_since_register>>
       ELSE /\ registry_outcome' = [name |-> name, kind |-> "in_tool"]
            /\ tool_usage_stats' = UsageAfterExecute(tool_usage_stats, name)
            /\ tools' = CountAfterSafeExecute(tools, name)
            /\ calls_since_register' =
                  [calls_since_register EXCEPT ![name] = @ + 1]
    /\ UNCHANGED <<tool_call, orchVars, callVars, decompVars, paramVars>>

\* the domain logic returns or raises, and safe_execute returns its map
ExecuteToolReturn(domain_ok) ==
    /\ registry_outcome.kind = "in_tool"
    /\ registry_outcome' =
          [registry_outcome EXCEPT !.kind =
              IF SafeExecuteResult(domain_ok).success THEN "returned_success"
              ELSE "returned_failure"]
    /\ UNCHANGED <<tools, tool_usage_stats, registry_calls, tool_call,
                   calls_since_register, orchVars, callVars, decompVars, paramVars>>

NextRegistry ==
    \/ \E name \in ToolNames : RegisterTool(name)
    \/ \E name \in ToolNames : ExecuteToolCall(name)
    \/ \E ok \in BOOLEAN : ExecuteToolReturn(ok)

SpecRegistry == InitRegistry /\ [][NextRegistry]_vars

(***************************************************************************)
(* SpecSharedRegistry: the registry of the chatbot service used by plans   *)
(* that run at once (one sub-task each) while register_tool and direct     *)
(* execute_tool calls are made on it.                                      *)
(***************************************************************************)
SharedToolNames == {RegisteredChoice, "web_search"}

SingleTaskPlans == {s \in IndependentPlans : Len(s) = 1 /\ s[1].deps_iterable}

StartSingleTask(c) ==
    /\ plans_created < MaxExecutions
    /\ \E subs \in SingleTaskPlans : StartCall(c, subs, MaxExecutions)

NextSharedRegistry ==
    \/ \E name \in SharedToolNames : RegisterTool(name)
    \/ \E name \in SharedToolNames : ExecuteToolCall(name)
    \/ \E ok \in BOOLEAN : ExecuteToolReturn(ok)
    \/ \E c \in Calls : StartSingleTask(c)
    \/ \E c \in Calls : \E id \in DOMAIN running_tasks[c] : TaskRun(c, id)
    \/ \E c \in Calls : \E id \in DOMAIN running_tasks[c] :
          \E ok \in BOOLEAN : ToolReturn(c, id, ok)
    \/ \E c \in Calls : Wake(c)

SpecSharedRegistry == Init /\ [][NextSharedRegistry]_vars


(***************************************************************************)
(* The tools themselves.  A message is the sequence of the pieces it is    *)
(* formatted from, so that one message containing another is a matter of   *)
(* its pieces.  The data store either answers or raises (store_ok).        *)
(***************************************************************************)
Contains(message, piece) == \E i \in DOMAIN message : message[i] = piece

MapMerge(a, b) == [k \in DOMAIN a \cup DOMAIN b |-> IF k \in DOMAIN b THEN b[k] ELSE a[k]]

NoValue == [kind |-> "none"]

Raised(message) ==
    [raised |-> TRUE, message |-> message, value |-> NoValue, store_calls |-> <<>>]

Returned(value, calls) ==
    [raised |-> FALSE, message |-> <<>>, value |-> value, store_calls |-> calls]

\* the query_type values passed to the database tool; "" is a missing one
DatabaseQueryTypes ==
    {"", "order_lookup", "product_search", "customer_analytics", "order_analytics",
     "product_analytics", "business_summary", "company_policies", "refunds"}

\* params: with or without order_id (empty or not), with or without keywords
DatabaseParams ==
    {MapMerge(a, b) :
        a \in {EmptyMap} \cup {[order_id |-> v] : v \in {"", "ORD001"}},
        b \in {EmptyMap} \cup {[keywords |-> k] : k \in {<<>>, <<"shoes">>}}}

DatabaseKwargs == [query_type : DatabaseQueryTypes, params : DatabaseParams]

\* variant: the wrapped message drops the message of the error it wraps
WrapDatabaseErrorBare(message) == <<"Database query failed">>

\* except Exception as e: raise ToolExecutionError(f"Database query failed: {str(e)}")
WrapDatabaseError(message) == <<"Database query failed: ">> \o message

\* the calls on db_service: each returns, or the first one raises
StoreCalls(methods, type, store_ok) ==
    IF store_ok
    THEN Returned([kind |-> "data", type |-> type], methods)
    ELSE [Raised(WrapDatabaseError(<<"data store error">>))
            EXCEPT !.store_calls = <<methods[1]>>]

\* DatabaseQueryTool.execute
DatabaseExecute(kwargs, store_ok) ==
    LET params == kwargs.params
        Missing(key, empty) == key \notin DOMAIN params \/ params[key] = empty
    IN CASE kwargs.query_type = "" ->
              Raised(<<"query_type parameter is required">>)
         [] kwargs.query_type = "order_lookup" ->
              IF Missing("order_id", "")
              THEN Raised(WrapDatabaseError(<<"order_id is required", " for order lookup">>))
              ELSE StoreCalls(<<"get_order_by_id">>, "order_detail", store_ok)
         [] kwargs.query_type = "product_search" ->
              IF Missing("keywords", <<>>)
              THEN Raised(WrapDatabaseError(<<"keywords are required", " for product search">>))
              ELSE StoreCalls(<<"search_products">>, "product_list", store_ok)
         [] kwargs.query_type = "customer_analytics" ->
              StoreCalls(<<"get_all_customers", "get_order_statistics">>, "analytics", store_ok)
         [] kwargs.query_type = "order_analytics" ->
              StoreCalls(<<"get_all_orders", "get_order_statistics">>, "analytics", store_ok)
         [] kwargs.query_type = "product_analytics" ->
              StoreCalls(<<"get_all_products_detailed", "get_product_statistics">>,
                         "analytics", store_ok)
         [] kwargs.query_type = "business_summary" ->
              StoreCalls(<<"get_business_summary">>, "summary", store_ok)
         [] kwargs.query_type = "company_policies" ->
              StoreCalls(<<"get_all_company_info">>, "policies", store_ok)
         [] OTHER ->
              Raised(WrapDatabaseError(<<"Unknown query type: ", kwargs.query_type>>))

\* the elements a data list is made of: numbers, and one that is no number
DataItems ==
    {[numeric |-> TRUE, value |-> v] : v \in {-2, 1, 3}}
    \cup {[numeric |-> FALSE, value |-> 0]}

RECURSIVE DataLists(_)
DataLists(n) ==
    IF n = 0 THEN {<<>>}
    ELSE DataLists(n - 1)
         \cup {Append(l, x) : l \in {m \in DataLists(n - 1) : Len(m) = n - 1},
                              x \in DataItems}

\* the data argument: None, a list, or a non-empty value that is no list
DataValues ==
    {[kind |-> "none", items |-> <<>>], [kind |-> "scalar", items |-> <<>>]}
    \cup {[kind |-> "list", items |-> l] : l \in DataLists(MaxData)}

\* the operations tried on the calculation tool; "" is a missing one
CalculationOperations == {"", "statistics", "count", "median"}

CalculationKwargs == [operation : CalculationOperations, data : DataValues]

\* Python's truth value of the data argument
Truthy(data) == data.kind = "scalar" \/ (data.kind = "list" /\ data.items # <<>>)

MinOf(values) ==
    CHOOSE v \in {values[i] : i \in DOMAIN values} :
        \A i \in DOMAIN values : v <= values[i]

MaxOf(values) ==
    CHOOSE v \in {values[i] : i \in DOMAIN values} :
        \A i \in DOMAIN values : v >= values[i]

\* CalculationTool._calculate_statistics; the mean is the fraction <<sum, count>>
calculate_statistics(items) ==
    LET IsNumeric(x) == x.numeric
        numeric == SelectSeq(items, IsNumeric)
        numeric_data == [i \in DOMAIN numeric |-> numeric[i].value]
    IN IF items = <<>> THEN [fields |-> {}]
       ELSE IF numeric_data = <<>> THEN [fields |-> {"count"}, count |-> Len(items)]
       ELSE [fields |-> {"count", "sum", "mean", "min", "max", "range"},
             count |-> Len(numeric_data),
             sum |-> SumOf(numeric_data),
             mean |-> <<SumOf(numeric_data), Len(numeric_data)>>,
             min |-> MinOf(numeric_data),
             max |-> MaxOf(numeric_data),
             range |-> MaxOf(numeric_data) - MinOf(numeric_data)]

\* except Exception as e: raise ToolExecutionError(f"Calculation failed: {str(e)}")
WrapCalculationError(message) == <<"Calculation failed: ">> \o message

\* CalculationTool.execute, for the operations above
CalculationExecute(kwargs) ==
    CASE kwargs.operation = "" ->
           Raised(<<"operation parameter is required">>)
      [] kwargs.operation = "statistics" ->
           IF ~Truthy(kwargs.data) \/ kwargs.data.kind # "list"
           THEN Raised(WrapCalculationError(<<"data list is required for statistics">>))
           ELSE Returned([kind |-> "calculation", operation |-> "statistics",
                          result |-> calculate_statistics(kwargs.data.items)], <<>>)
      [] kwargs.operation = "count" ->
           IF ~Truthy(kwargs.data)
           THEN Raised(WrapCalculationError(<<"data is required for count operation">>))
           ELSE Returned([kind |-> "calculation", operation |-> "count",
                          result |-> IF kwargs.data.kind = "list"
                                     THEN Len(kwargs.data.items) ELSE 1], <<>>)
      [] OTHER ->
           Raised(WrapCalculationError(<<"Unknown operation: ", kwargs.operation>>))

\* the map safe_execute returns; "result" is present on success and "error"
\* (str(e), the message itself) on failure
SafeExecuteMap(name, outcome) ==
    IF outcome.raised
    THEN [success |-> FALSE, has_result |-> FALSE, result |-> NoValue,
          error |-> outcome.message, tool_name |-> name]
    ELSE [success |-> TRUE, has_result |-> TRUE, result |-> outcome.value,
          error |-> <<>>, tool_name |-> name]

CallWays == {"execute", "safe_execute", "execute_tool"}

BuiltinSeq == <<"database_query", "calculation", "text_processing">>

\* one call on a built-in tool: tool.execute(**kwargs) itself,
\* tool.safe_execute(**kwargs), or registry.execute_tool(name, **kwargs)
ToolCall(tool, via, kwargs, outcome) ==
    /\ via # "execute" => SumOf([i \in 1..Len(BuiltinSeq) |-> tools[BuiltinSeq[i]]]) < MaxDirectCalls
    /\ tool_call' =
          [tool |-> tool, via |-> via, kwargs |-> kwargs, outcome |-> outcome,
           raised |-> (via = "execute" /\ outcome.raised),
           last_used |-> IF via = "execute" THEN "kept" ELSE "now",
           returned |-> IF via = "execute" THEN SafeExecuteMap("", Raised(<<>>))
                        ELSE SafeExecuteMap(tool, outcome)]
    /\ tools' = IF via = "execute" THEN tools ELSE CountAfterSafeExecute(tools, tool)
    /\ tool_usage_stats' = IF via = "execute_tool"
                           THEN UsageAfterExecute(tool_usage_stats, tool)
                           ELSE tool_usage_stats
    /\ calls_since_register' =
          IF via = "execute_tool"
          THEN [calls_since_register EXCEPT ![tool] = @ + 1]
          ELSE calls_since_register
    /\ UNCHANGED <<registry_outcome, registry_calls, orchVars, callVars, decompVars, paramVars>>

DatabaseCall(via, kwargs, store_ok) ==
    /\ via \in CallWays
    /\ ToolCall("database_query", via, kwargs, DatabaseExecute(kwargs, store_ok))

CalculationCall(via, kwargs) ==
    /\ via \in CallWays
    /\ ToolCall("calculation", via, kwargs, CalculationExecute(kwargs))

(***************************************************************************)
(* SpecTools: calls on the built-in tools of the chatbot service.          *)
(***************************************************************************)
NextTools ==
    \/ \E via \in CallWays : \E kwargs \in DatabaseKwargs : \E store_ok \in BOOLEAN :
          DatabaseCall(via, kwargs, store_ok)
    \/ \E via \in CallWays : \E kwargs \in CalculationKwargs :
          CalculationCall(via, kwargs)

SpecTools == Init /\ [][NextTools]_vars

(***************************************************************************)
(* AgentOrchestrator._prepare_task_parameters.  A value is given by its    *)
(* Python kind and its atoms: the one text of a string, the elements of a  *)
(* list, the items of a dict.  An atom says whether it is a number.        *)
(***************************************************************************)
Atom(key, numeric, text) == [key |-> key, numeric |-> numeric, text |-> text]

AbsentValue == [kind |-> "absent", atoms |-> <<>>]

StrValue(text) == [kind |-> "str", atoms |-> <<Atom("", FALSE, text)>>]

ListValue(atoms) == [kind |-> "list", atoms |-> atoms]

DictValue(atoms) == [kind |-> "dict", atoms |-> atoms]

\* dict.update: the items of other replace those of the same key and the new
\* keys are added at the end
DictUpdate(value, other) ==
    LET Replaced(a) ==
            IF \E k \in DOMAIN other.atoms : other.atoms[k].key = a.key
            THEN other.atoms[CHOOSE k \in DOMAIN other.atoms : other.atoms[k].key = a.key]
            ELSE a
        IsNew(a) == \A k \in DOMAIN value.atoms : value.atoms[k].key # a.key
    IN DictValue([i \in DOMAIN value.atoms |-> Replaced(value.atoms[i])]
                 \o SelectSeq(other.atoms, IsNew))

\* the numbers among the values of a dict, as a list
NumericValues(value) ==
    LET IsNumber(a) == a.numeric
        numbers == SelectSeq(value.atoms, IsNumber)
    IN ListValue([i \in DOMAIN numbers |-> Atom("", TRUE, numbers[i].text)])

\* the value of the "result" key of what safe_execute returned for a
\* dependency: a string, or a dict that may hold "entities" and "data"
ResultStr(text) ==
    [kind |-> "str", text |-> StrValue(text), entities |-> AbsentValue,
     data |-> AbsentValue]

ResultDict(entities, data) ==
    [kind |-> "dict", text |-> AbsentValue, entities |-> entities, data |-> data]

ResultAbsent ==
    [kind |-> "absent", text |-> AbsentValue, entities |-> AbsentValue,
     data |-> AbsentValue]

\* "; ".join(f"{key}: {value}" ...) over the items of a dict result
RenderedText(result) ==
    LET present == SelectSeq(<<"entities", "data">>,
                             LAMBDA k : IF k = "entities"
                                        THEN result.entities.kind # "absent"
                                        ELSE result.data.kind # "absent")
    IN [kind |-> "str",
        atoms |-> [i \in DOMAIN present |->
                     Atom(present[i], FALSE,
                          IF present[i] = "entities" THEN result.entities.kind
                          ELSE result.data.kind)]]

\* the maps safe_execute returns: on failure there is no "result" key
FailureMap == [success |-> FALSE, result |-> ResultAbsent]

SuccessMap(result) == [success |-> TRUE, result |-> result]

OrderEntities == DictValue(<<Atom("order_id", FALSE, "ORD001")>>)

MixedList == ListValue(<<Atom("", TRUE, "1"), Atom("", FALSE, "x")>>)

TotalsDict == DictValue(<<Atom("total", TRUE, "5"), Atom("name", FALSE, "n")>>)

NamesDict == DictValue(<<Atom("name", FALSE, "n")>>)

\* TextProcessingTool.execute(operation="extract_entities"): the keys of the
\* dict it returns; the entities found are the value of "result"
ExtractEntitiesKeys == {"result", "operation"}

\* what safe_execute returns for it, as _prepare_task_parameters reads it:
\* the values of the keys "entities" and "data" of the tool's dict
ExtractEntitiesResult ==
    SuccessMap(ResultDict(IF "entities" \in ExtractEntitiesKeys
                          THEN OrderEntities ELSE AbsentValue,
                          IF "data" \in ExtractEntitiesKeys
                          THEN MixedList ELSE AbsentValue))

DependencyResults ==
    {FailureMap, ExtractEntitiesResult,
     SuccessMap(ResultStr("summary")),
     SuccessMap(ResultDict(AbsentValue, AbsentValue)),
     SuccessMap(ResultDict(OrderEntities, MixedList)),
     SuccessMap(ResultDict(DictValue(<<>>), TotalsDict)),
     SuccessMap(ResultDict(AbsentValue, NamesDict)),
     SuccessMap(ResultDict(OrderEntities, StrValue("raw")))}

\* the effect of one dependency's result on the parameters, by task type
Inject(parameters, task_type, dep_result) ==
    LET result == dep_result.result
    IN CASE task_type = "database_query" ->
              IF result.kind = "dict" /\ result.entities.kind = "dict"
                 /\ result.entities.atoms # <<>>
              THEN MapPut(parameters, "params",
                          DictUpdate(IF "params" \in DOMAIN parameters
                                     THEN parameters["params"] ELSE DictValue(<<>>),
                                     result.entities))
              ELSE parameters
         [] task_type = "calculation" ->
              IF result.kind = "dict" /\ result.data.kind = "list"
              THEN MapPut(parameters, "data", result.data)
              ELSE IF result.kind = "dict" /\ result.data.kind = "dict"
                      /\ NumericValues(result.data).atoms # <<>>
              THEN MapPut(parameters, "data", NumericValues(result.data))
              ELSE parameters
         [] task_type = "text_processing" ->
              IF result.kind = "str" THEN MapPut(parameters, "text", result.text)
              ELSE IF result.kind = "dict"
              THEN MapPut(parameters, "text", RenderedText(result))
              ELSE parameters
         [] OTHER -> parameters

RECURSIVE InjectAll(_, _, _, _)
\* for dep_id in task.dependencies: if dep_id in previous_results: ...
InjectAll(parameters, task_type, dependencies, previous_results) ==
    IF dependencies = <<>> THEN parameters
    ELSE InjectAll(IF Head(dependencies) \in DOMAIN previous_results
                   THEN Inject(parameters, task_type, previous_results[Head(dependencies)])
                   ELSE parameters,
                   task_type, Tail(dependencies), previous_results)

\* variant: the context laid under the parameters
ContextBelow(parameters, context) == MapMerge(context, parameters)

\* parameters.update(context)
WithContext(parameters, context) == MapMerge(parameters, context)

prepare_task_parameters(task_type, declared, dependencies, previous_results, context) ==
    WithContext(InjectAll(declared, task_type, dependencies, previous_results), context)

TaskTypes == {"database_query", "calculation", "text_processing", "response_synthesis"}

DependencyIds == {FormatTaskId(1), FormatTaskId(2)}

DependencyLists ==
    {<<>>} \cup {<<d>> : d \in DependencyIds}
    \cup {l \in DependencyIds \X DependencyIds : l[1] # l[2]}

\* the values a task declares for the keys the projections write to
DeclaredValue(key) ==
    CASE key = "params" -> DictValue(<<Atom("order_id", FALSE, "declared")>>)
      [] key = "data" -> ListValue(<<>>)
      [] OTHER -> StrValue("declared")

\* the parameters _decompose_lookup_query declares for the order lookup
LookupParameters ==
    [query_type |-> StrValue("order_lookup"), params |-> DictValue(<<>>)]

DeclaredMaps ==
    {[k \in K |-> DeclaredValue(k)] : K \in SUBSET {"params", "data", "text"}}
    \cup {LookupParameters}

ContextMaps ==
    {[k \in K |-> StrValue("context")] :
        K \in {{}, {"session_id"}, {"text"}, {"data", "params"},
               {"params", "data", "text", "session_id"}}}

PreviousResults ==
    UNION {[D -> DependencyResults] : D \in SUBSET DependencyIds}

\* task.parameters once the call is over: task.parameters.copy() is a shallow
\* copy, so the dict under "params" is shared with the copy and
\* parameters["params"].update(entities) writes into it; every other write
\* binds a key of the copy
DeclaredAfter(task_type, declared, dependencies, previous_results) ==
    IF "params" \in DOMAIN declared
    THEN [declared EXCEPT !["params"] =
            InjectAll(declared, task_type, dependencies, previous_results)["params"]]
    ELSE declared

\* one _prepare_task_parameters call
Prepare(task_type, declared, dependencies, previous_results, context) ==
    /\ prepared' =
         [done |-> TRUE, task_type |-> task_type, declared |-> declared,
          dependencies |-> dependencies, previous_results |-> previous_results,
          context |-> context,
          declared_after |-> DeclaredAfter(task_type, declared, dependencies,
                                           previous_results),
          parameters |-> prepare_task_parameters(task_type, declared, dependencies,
                                                 previous_results, context)]
    /\ UNCHANGED <<registryVars, orchVars, callVars, decompVars>>

(***************************************************************************)
(* SpecParameters: _prepare_task_parameters on any task, results, context. *)
(***************************************************************************)
\* one call in a behaviour
NextParameters ==
    /\ ~prepared.done
    /\ \E task_type \in TaskTypes, declared \in DeclaredMaps,
          dependencies \in DependencyLists, previous_results \in PreviousResults,
          context \in ContextMaps :
           Prepare(task_type, declared, dependencies, previous_results, context)

SpecParameters == Init /\ [][NextParameters]_vars

(***************************************************************************)
(* Properties.  Notions of the dependency graph of the plan of call 1.     *)
(***************************************************************************)
Finished(c) == pc[c] \in {"returned", "raised"}

PlanIds(subs) == {subs[i].id : i \in DOMAIN subs}

AllIterable(subs) == \A i \in DOMAIN subs : subs[i].deps_iterable

HasDanglingDependency(subs) ==
    \E i \in DOMAIN subs : ~(subs[i].dependencies \subseteq PlanIds(subs))

RECURSIVE DependencyClosure(_, _)
\* the ids reachable from the ids in S along dependencies, S included
DependencyClosure(subs, S) ==
    LET T == S \cup UNION {subs[i].dependencies :
                             i \in {j \in DOMAIN subs : subs[j].id \in S}}
    IN IF T = S THEN S ELSE DependencyClosure(subs, T)

HasDependencyCycle(subs) ==
    \E i \in DOMAIN subs : subs[i].id \in DependencyClosure(subs, subs[i].dependencies)

RECURSIVE CanBecomeReady(_, _)
\* the ids of the tasks whose dependencies can all be completed, from S up
CanBecomeReady(subs, S) ==
    LET T == {subs[i].id : i \in {j \in DOMAIN subs : subs[j].dependencies \subseteq S}}
    IN IF T = S THEN S ELSE CanBecomeReady(subs, T)

NeverReady(subs) == PlanIds(subs) \ CanBecomeReady(subs, {})

TerminalStatus(te) ==
    te.status = "completed" \/ (te.status = "failed" /\ te.retry_count = MaxRetries)

NumberCompleted(c) ==
    Cardinality({i \in DOMAIN plan[c].task_executions :
                    plan[c].task_executions[i].status = "completed"})

InFlight(c) ==
    Cardinality({i \in DOMAIN plan[c].task_executions :
                    plan[c].task_executions[i].status = "running"})

\* C1: in every decomposition that decompose_query returns, on the first and
\* on every later call to one decomposer, each dependency id of a sub-task is
\* the id of another sub-task of the same decomposition.
C1_DependenciesResolve ==
    \A i \in DOMAIN decomposition.sub_tasks :
        \A d \in decomposition.sub_tasks[i].dependencies :
            \E j \in DOMAIN decomposition.sub_tasks \ {i} :
                decomposition.sub_tasks[j].id = d

C2_Premise ==
    /\ pc[1] # "idle"
    /\ AllIterable(plan[1].sub_tasks)
    /\ ~HasDanglingDependency(plan[1].sub_tasks)
    /\ ~HasDependencyCycle(plan[1].sub_tasks)

C2_AllTerminal ==
    \A i \in DOMAIN plan[1].task_executions : TerminalStatus(plan[1].task_executions[i])

\* C2: a plan whose dependency graph is acyclic and refers only to ids of the
\* plan, run with a ceiling of at least 1 and tools that return or raise,
\* terminates, and when it has terminated every TaskExecution is Completed or
\* Failed with its retries exhausted; none is Pending or Running.
C2_Terminates ==
    /\ [](C2_Premise /\ Finished(1) => C2_AllTerminal)
    /\ (C2_Premise ~> Finished(1))

\* an acyclic two-level plan has finished with a task Failed for good and a
\* task that depended on it Completed
C2_Witness ==
    /\ C2_Premise /\ Finished(1) /\ C2_AllTerminal
    /\ \E i, j \in DOMAIN plan[1].sub_tasks :
          /\ plan[1].sub_tasks[i].id \in plan[1].sub_tasks[j].dependencies
          /\ plan[1].task_executions[i].status = "failed"
          /\ plan[1].task_executions[j].status = "completed"

C3_Premise ==
    /\ pc[1] # "idle"
    /\ AllIterable(plan[1].sub_tasks)
    /\ \/ HasDanglingDependency(plan[1].sub_tasks)
       \/ HasDependencyCycle(plan[1].sub_tasks)

C3_PartialResult ==
    /\ ret[1].kind = "return"
    /\ ret[1].success
    /\ ret[1].error = ""
    /\ ret[1].tasks_executed < Len(plan[1].sub_tasks)
    /\ \A i \in DOMAIN plan[1].sub_tasks :
          plan[1].sub_tasks[i].id \in NeverReady(plan[1].sub_tasks) =>
              /\ plan[1].task_executions[i].status = "pending"
              /\ ~plan[1].task_executions[i].started

\* C3: for a plan with a dependency cycle or a dependency on an id that is
\* not in the plan, execute_query_plan terminates and returns a result with
\* tasks_executed below the number of sub-tasks; the tasks that can never
\* become ready stay Pending, and no error is raised for the stall.
C3_StallReturns ==
    /\ [](C3_Premise /\ Finished(1) => C3_PartialResult)
    /\ (C3_Premise ~> Finished(1))

\* a plan with a task that could never run has returned after running another
C3_Witness ==
    /\ C3_Premise /\ Finished(1)
    /\ NeverReady(plan[1].sub_tasks) # {}
    /\ ret[1].tasks_executed = 1

\* C4: a TaskExecution is Running, or was ever started, only if every id in
\* its dependencies is in the completed set, each such dependency being a
\* task of the plan that is Completed or Failed with its retries exhausted.
C4_StartedAfterDependencies ==
    \A i \in DOMAIN plan[1].task_executions :
        (plan[1].task_executions[i].started \/ plan[1].task_executions[i].status = "running")
        => /\ plan[1].sub_tasks[i].deps_iterable
           /\ \A d \in plan[1].sub_tasks[i].dependencies :
                 /\ d \in completed_tasks[1]
                 /\ \E j \in DOMAIN plan[1].sub_tasks :
                       /\ plan[1].sub_tasks[j].id = d
                       /\ TerminalStatus(plan[1].task_executions[j])

\* a task is Running whose dependency Failed for good
C4_Witness ==
    \E i, j \in DOMAIN plan[1].sub_tasks :
        /\ plan[1].task_executions[i].status = "running"
        /\ plan[1].sub_tasks[j].id \in plan[1].sub_tasks[i].dependencies
        /\ plan[1].task_executions[j].status = "failed"

\* C5: for each plan the number of its tasks in flight (status Running) is at
\* most max_concurrent_tasks, also when several execute_query_plan calls run
\* at once on one orchestrator; the bound is per plan, not shared.
C5_CeilingPerPlan == \A c \in Calls : InFlight(c) <= max_concurrent_tasks

\* every one of the concurrent calls has as many tasks in flight as the
\* ceiling allows, with more tasks in its plan than that
C5_Witness ==
    \A c \in Calls :
        /\ pc[c] = "waiting"
        /\ InFlight(c) = max_concurrent_tasks
        /\ Len(plan[c].sub_tasks) > max_concurrent_tasks

\* C6: when the execution loop and the synthesis do not raise,
\* execute_query_plan returns success=true, however many sub-tasks ended
\* Failed for good or were never started, and tasks_executed is the number of
\* TaskExecutions whose final status is Completed.
C6_SuccessDespiteFailures ==
    (Finished(1) /\ AllIterable(plan[1].sub_tasks))
    => /\ ret[1].kind = "return"
       /\ ret[1].success
       /\ ret[1].tasks_executed = NumberCompleted(1)

\* a call has returned success with one task Failed for good and one never
\* started
C6_Witness ==
    /\ Finished(1) /\ ret[1].success
    /\ \E i, j \in DOMAIN plan[1].task_executions :
          /\ plan[1].task_executions[i].status = "failed"
          /\ plan[1].task_executions[j].status = "pending"
          /\ ~plan[1].task_executions[j].started

\* C7: after every execute_query_plan call, whether it returned success=true
\* or success=false, total_executions went up by 1 and so did exactly one of
\* successful_executions and failed_executions (failed_executions for
\* success=false): total_executions is the number of finished plans.
C7_CountersFollowCalls ==
    /\ performance_metrics.total_executions = Len(execution_history)
    /\ performance_metrics.successful_executions
         = Cardinality({k \in DOMAIN execution_history :
                           execution_history[k].overall_status = "completed"})
    /\ performance_metrics.failed_executions
         = Cardinality({k \in DOMAIN execution_history :
                           execution_history[k].overall_status = "failed"})

\* C8: execution_history holds at most 100 plans, the finished ones in the
\* order they finished; a plan is in active_executions from the start of its
\* call until the call returns, and never once it is in the history.
C8_ActiveUntilHistory ==
    /\ Len(execution_history) <= HistoryCap
    /\ \A c \in Calls :
          pc[c] = "waiting" =>
              /\ plan[c].execution_id \in DOMAIN active_executions
              /\ active_executions[plan[c].execution_id] = plan[c].serial
    /\ \A c \in Calls :
          Finished(c) =>
              \E k \in DOMAIN execution_history :
                  execution_history[k].serial = plan[c].serial
    /\ \A k \in DOMAIN execution_history :
          \A id \in DOMAIN active_executions :
              active_executions[id] # execution_history[k].serial

\* C9: a sub-task whose tool invocation failed (the tool's domain logic
\* raised) goes back to Pending and is re-run up to max_retries times, then is
\* Failed for good; it is never marked Completed.
C9_FailedToolNeverCompleted ==
    \A i \in DOMAIN plan[1].task_executions :
        plan[1].task_executions[i].status = "completed"
        => plan[1].task_executions[i].result.success

\* C10: execute_tool with an unregistered name raises and leaves
\* tool_usage_stats and every tool's execution_count as they were; with a
\* registered name it adds exactly 1 to that name's usage counter before the
\* tool is invoked, and it returns without raising whatever the tool does.
C10_ExecuteTool ==
    [][/\ registry_calls' = registry_calls + 1 =>
            IF registry_outcome'.name \notin DOMAIN tools
            THEN /\ registry_outcome'.kind = "raised"
                 /\ tool_usage_stats' = tool_usage_stats
                 /\ tools' = tools
            ELSE /\ registry_outcome'.kind = "in_tool"
                 /\ DOMAIN tool_usage_stats' = DOMAIN tool_usage_stats
                 /\ \A n \in DOMAIN tool_usage_stats :
                       tool_usage_stats'[n] =
                           IF n = registry_outcome'.name THEN tool_usage_stats[n] + 1
                           ELSE tool_usage_stats[n]
       /\ (registry_outcome.kind = "in_tool" /\ registry_outcome' # registry_outcome) =>
            /\ registry_outcome'.kind \in {"returned_success", "returned_failure"}
            /\ registry_outcome'.name = registry_outcome.name
            /\ tool_usage_stats' = tool_usage_stats
      ]_vars

\* a registered tool was executed a second time and its domain logic raised
C10_Witness ==
    /\ registry_outcome.kind = "returned_failure"
    /\ tool_usage_stats[registry_outcome.name] = 2

\* C11: get_tool_names() is exactly the set of names registered so far, and
\* get_usage_stats()[name] is the number of execute_tool calls made on the
\* name since it was last registered, under any interleaving of
\* register_tool and execute_tool calls, those of concurrent plans included.
C11_RegistryRoundTrip ==
    /\ get_tool_names = DOMAIN calls_since_register
    /\ DOMAIN get_usage_stats = DOMAIN calls_since_register
    /\ \A name \in DOMAIN calls_since_register :
          get_usage_stats[name] = calls_since_register[name]

\* a name was registered again after calls had been counted on it, among
\* them calls of two plans in flight together, and then called once more
C11_Witness ==
    /\ \A c \in Calls : pc[c] = "waiting"
    /\ RegisteredChoice \in DOMAIN performance_metrics.tool_usage_count
    /\ performance_metrics.tool_usage_count[RegisteredChoice] = 2
    /\ calls_since_register[RegisteredChoice] = 1
    /\ registry_outcome = [name |-> RegisteredChoice, kind |-> "returned_success"]

C12_Case ==
    /\ tool_call.tool = "database_query"
    /\ tool_call.kwargs.query_type = "order_lookup"
    /\ \/ "order_id" \notin DOMAIN tool_call.kwargs.params
       \/ tool_call.kwargs.params["order_id"] = ""

\* C12: DatabaseQueryTool.execute with query_type "order_lookup" and params
\* without a non-empty order_id raises an error whose message contains
\* "order_id is required" and makes no call on the data store; through
\* safe_execute or the registry the call returns a success=false map whose
\* error contains that text.
C12_OrderIdRequired ==
    C12_Case =>
        /\ tool_call.outcome.raised
        /\ Contains(tool_call.outcome.message, "order_id is required")
        /\ tool_call.outcome.store_calls = <<>>
        /\ IF tool_call.via = "execute" THEN tool_call.raised
           ELSE /\ ~tool_call.raised
                /\ ~tool_call.returned.success
                /\ Contains(tool_call.returned.error, "order_id is required")

\* the lookup was made through the registry with an empty order_id
C12_Witness ==
    /\ C12_Case
    /\ tool_call.via = "execute_tool"
    /\ "order_id" \in DOMAIN tool_call.kwargs.params
    /\ ~tool_call.returned.success

\* C13: the statistics operation computes count, sum, mean, min, max and
\* range over the numbers of its input list; an empty list yields {} and a
\* non-empty list without a number yields {count: len}, also when invoked as
\* CalculationTool.execute(operation="statistics", data=[]).
C13_StatisticsOfList ==
    (/\ tool_call.tool = "calculation"
     /\ tool_call.kwargs.operation = "statistics"
     /\ tool_call.kwargs.data.kind = "list")
    => /\ ~tool_call.outcome.raised
       /\ LET items == tool_call.kwargs.data.items
              numbers == {i \in DOMAIN items : items[i].numeric}
              stats == tool_call.outcome.value.result
          IN IF items = <<>> THEN stats.fields = {}
             ELSE IF numbers = {} THEN stats.fields = {"count"} /\ stats.count = Len(items)
             ELSE /\ stats.fields = {"count", "sum", "mean", "min", "max", "range"}
                  /\ stats.count = Cardinality(numbers)
                  /\ \E i \in numbers : stats.min = items[i].value
                  /\ \E i \in numbers : stats.max = items[i].value
                  /\ \A i \in numbers : stats.min <= items[i].value /\ items[i].value <= stats.max
                  /\ stats.range = stats.max - stats.min
                  /\ stats.mean = <<stats.sum, stats.count>>

\* whether the sub-tasks are the chain extraction -> business-summary fetch ->
\* statistics -> synthesis, each step depending on the one before it
IsAnalyticalChain(sub_tasks) ==
    /\ Len(sub_tasks) = 4
    /\ sub_tasks[1].type = "text_processing" /\ sub_tasks[1].dependencies = {}
    /\ sub_tasks[2].type = "database_query"
    /\ sub_tasks[2].parameters.query_type = "business_summary"
    /\ sub_tasks[3].type = "calculation" /\ sub_tasks[3].parameters.operation = "statistics"
    /\ sub_tasks[4].type = "response_synthesis"
    /\ \A i \in 2..4 : sub_tasks[i].dependencies = {sub_tasks[i - 1].id}

\* C14: for the query "(inverted ?)Cu(a acute)ntos pedidos y clientes tenemos?"
\* the analyzer matches at least one analytical and one multi-entity keyword,
\* classifies it analytical_aggregation or complex_multi_step, and
\* decompose_query returns at least three sub-tasks that form the chain
\* extraction -> business-summary fetch -> statistics -> synthesis, with
\* expected_response_format "analytical_report".
C14_CountQueryIsAnalytical ==
    analysis.query = CountQuery =>
        /\ Matches("analytical", Lower(CountQuery)) >= 1
        /\ Matches("multi_entity", Lower(CountQuery)) >= 1
        /\ analysis.query_type \in {"analytical_aggregation", "complex_multi_step"}
        /\ decomposition.query_type = analysis.query_type
        /\ Len(decomposition.sub_tasks) >= 3
        /\ IsAnalyticalChain(decomposition.sub_tasks)
        /\ decomposition.expected_response_format = "analytical_report"

\* what the code does with that query: no keyword is matched, the query is
\* simple_informational and gets the two sub-tasks of the simple strategy
C14_CountQueryIsSimple ==
    /\ analysis.query = CountQuery
    /\ analysis.query_type = "simple_informational"
    /\ analysis.doubled_score = 0
    /\ Len(decomposition.sub_tasks) = 2
    /\ decomposition.expected_response_format = "conversational"

\* the analyzer agrees with the code on the other texts
AnalyzerAgrees ==
    /\ analysis.query = HowManyQuery =>
          analysis.query_type = "complex_multi_step" /\ analysis.doubled_score = 14
    /\ analysis.query = ShowOrderQuery =>
          /\ analysis.query_type = "multi_entity_lookup" /\ analysis.doubled_score = 6
          /\ decomposition.sub_tasks[2].parameters.query_type = "order_analytics"
    /\ analysis.query = GreetingQuery => analysis.doubled_score = 0
    /\ analysis.query = CompareQuery =>
          analysis.query_type = "comparative_analysis" /\ analysis.doubled_score = 12
    /\ analysis.query = TotalQuery =>
          /\ analysis.query_type = "analytical_aggregation" /\ analysis.doubled_score = 6
          /\ decomposition.expected_response_format = "analytical_report"
    /\ analysis.query = BothQuery =>
          /\ analysis.query_type = "multi_entity_lookup" /\ analysis.doubled_score = 4
          /\ decomposition.sub_tasks[2].parameters.query_type = "product_analytics"
    /\ analysis.query = LongQuery =>
          analysis.query_type = "complex_multi_step" /\ analysis.doubled_score = 15

\* the plans the orchestrator has made and still knows of: those of the calls
\* that have started, and those in the history
KnownPlans ==
    {[serial |-> plan[c].serial, execution_id |-> plan[c].execution_id] :
        c \in {d \in Calls : pc[d] # "idle"}}
    \cup {[serial |-> execution_history[k].serial,
           execution_id |-> execution_history[k].execution_id] :
            k \in DOMAIN execution_history}

\* C15: every ExecutionPlan has an execution_id different from that of every
\* other plan of the orchestrator, running or in the history, also when calls
\* start with no advance of the clock between them; and the entry of a running
\* plan in active_executions is neither overwritten nor deleted by another
\* call.
C15_ExecutionIdsDistinct ==
    /\ \A p1, p2 \in KnownPlans :
          p1.serial # p2.serial => p1.execution_id # p2.execution_id
    /\ \A c \in Calls :
          pc[c] = "waiting" =>
              \E id \in DOMAIN active_executions :
                  /\ id = plan[c].execution_id
                  /\ active_executions[id] = plan[c].serial

\* two calls running at once on plans with the same execution_id
C15_SameIdAtOnce ==
    \E c, d \in Calls :
        /\ c # d
        /\ pc[c] = "waiting" /\ pc[d] = "waiting"
        /\ plan[c].serial # plan[d].serial
        /\ plan[c].execution_id = plan[d].execution_id

\* the positions in the plan of the task executions with the given status
WithStatus(te, status) ==
    LET Has(i) == te[i].status = status
    IN SelectSeq(IndexSeq(Len(te)), Has)

\* C16: the list _synthesize_results hands to the formatter has one entry
\* for every Completed TaskExecution, in plan order, and none for a Failed,
\* Pending or Running one.
C16_EntryPerCompletedTask ==
    (ret[1].kind = "return" /\ ret[1].success) =>
        ret[1].result = WithStatus(plan[1].task_executions, "completed")

\* a call has returned a synthesis that leaves a Completed task out
C16_CompletedLeftOut ==
    /\ ret[1].kind = "return" /\ ret[1].success
    /\ \E i \in DOMAIN plan[1].task_executions :
          /\ plan[1].task_executions[i].status = "completed"
          /\ ~plan[1].task_executions[i].result.success
          /\ \A k \in DOMAIN ret[1].result : ret[1].result[k] # i

\* the dependencies, in the order of the list, whose recorded result gives the
\* task something to take: entities for a database query, a data list or a
\* dict of data with a number in it for a calculation, a string or a dict
\* for a text-processing task
Projecting(p) ==
    LET Gives(d) ==
            /\ d \in DOMAIN p.previous_results
            /\ LET r == p.previous_results[d].result
               IN \/ /\ p.task_type = "database_query"
                     /\ r.entities.kind = "dict" /\ r.entities.atoms # <<>>
                  \/ /\ p.task_type = "calculation"
                     /\ \/ r.data.kind = "list"
                        \/ /\ r.data.kind = "dict"
                           /\ \E k \in DOMAIN r.data.atoms : r.data.atoms[k].numeric
                  \/ /\ p.task_type = "text_processing"
                     /\ r.kind \in {"str", "dict"}
    IN SelectSeq(p.dependencies, Gives)

\* the key a task of the type takes from its dependencies
ProjectedKey(task_type) ==
    CASE task_type = "database_query" -> "params"
      [] task_type = "calculation" -> "data"
      [] OTHER -> "text"

\* C17: the parameter map passed to the tool is the task's declared
\* parameters, overridden by the values projected from the results of its
\* dependencies, overridden by the caller's context: every key of the context
\* has the context's value, a key taken from a dependency and not in the
\* context has the dependency's value and not the declared one, and every
\* other key has its declared value.
C17_ContextOverDependenciesOverDeclared ==
    prepared.done =>
        LET p == prepared
            projecting == Projecting(p)
            last == p.previous_results[projecting[Len(projecting)]].result
            key == ProjectedKey(p.task_type)
        IN /\ DOMAIN p.parameters
                = DOMAIN p.declared \cup DOMAIN p.context
                  \cup (IF projecting # <<>> THEN {key} ELSE {})
           /\ \A k \in DOMAIN p.context : p.parameters[k] = p.context[k]
           /\ \A k \in DOMAIN p.parameters \ DOMAIN p.context :
                 IF projecting = <<>> \/ k # key
                 THEN p.parameters[k] = p.declared[k]
                 ELSE CASE k = "params" ->
                             \A d \in DOMAIN projecting :
                                \A a \in DOMAIN p.previous_results[projecting[d]].result.entities.atoms :
                                   \E b \in DOMAIN p.parameters[k].atoms :
                                      p.parameters[k].atoms[b]
                                        = p.previous_results[projecting[d]].result.entities.atoms[a]
                        [] k = "data" ->
                             /\ p.parameters[k].kind = "list"
                             /\ last.data.kind = "list" => p.parameters[k] = last.data
                             /\ last.data.kind = "dict" =>
                                   /\ \A b \in DOMAIN p.parameters[k].atoms :
                                         p.parameters[k].atoms[b].numeric
                                   /\ Len(p.parameters[k].atoms)
                                        = Cardinality({a \in DOMAIN last.data.atoms :
                                                          last.data.atoms[a].numeric})
                        [] OTHER ->
                             /\ p.parameters[k].kind = "str"
                             /\ last.kind = "str" => p.parameters[k] = last.text
                             /\ last.kind = "dict" =>
                                   \A b \in DOMAIN p.parameters[k].atoms :
                                      p.parameters[k].atoms[b].key \in {"entities", "data"}

\* a task whose declared parameters, dependency and context all give the
\* same key has been prepared
C17_Witness ==
    /\ prepared.done
    /\ prepared.task_type = "text_processing"
    /\ "text" \in DOMAIN prepared.declared
    /\ "text" \in DOMAIN prepared.context
    /\ Projecting(prepared) # <<>>
    /\ prepared.parameters["text"] = StrValue("context")

\* the status assignments the claim allows
AllowedChange(ch) ==
    \/ ch.from = "pending" /\ ch.to = "running" /\ ch.retry_after = ch.retry_count
    \/ ch.from = "running" /\ ch.to = "completed" /\ ch.retry_after = ch.retry_count
    \/ ch.from = "running" /\ ch.to = "failed" /\ ch.retry_after = ch.retry_count
    \/ /\ ch.from = "failed" /\ ch.to = "pending"
       /\ ch.retry_count < MaxRetries
       /\ ch.retry_after = ch.retry_count + 1

\* every assignment made so far is an allowed one, and a task is in
\* running_tasks exactly when it was dispatched once more than it was taken out
ChangesAllowed ==
    /\ \A ch \in task_log[1].changes : AllowedChange(ch)
    /\ \A id \in DOMAIN task_log[1].dispatched :
          LET in_flight == task_log[1].dispatched[id] - task_log[1].removed[id]
          IN /\ in_flight \in {0, 1}
             /\ in_flight = 1 <=> id \in DOMAIN running_tasks[1]

\* a Completed task execution, and a Failed one with its retries used up,
\* stay as they are
TerminalStays ==
    \A i \in DOMAIN plan[1].task_executions :
        LET te == plan[1].task_executions[i]
        IN (te.status = "completed" \/ (te.status = "failed" /\ te.retry_count = MaxRetries))
           => /\ i \in DOMAIN plan'[1].task_executions
              /\ plan'[1].task_executions[i].status = te.status
              /\ plan'[1].task_executions[i].retry_count = te.retry_count

\* C18: the status of a task execution changes only Pending -> Running,
\* Running -> Completed, Running -> Failed, and Failed -> Pending, the last
\* only when retry_count < max_retries and adding 1 to retry_count; Completed
\* is never left, nor is Failed with retry_count = max_retries; Skipped is
\* never assigned; a task in flight is not dispatched a second time.
C18_StatusTransitions == [] ChangesAllowed /\ [][TerminalStays]_vars

\* a plan has finished with one task Completed and another Failed for good
\* after its retries
C18_Witness ==
    /\ Finished(1)
    /\ \E ch \in task_log[1].changes : ch.from = "failed" /\ ch.to = "pending"
    /\ \E i, j \in DOMAIN plan[1].task_executions :
          /\ plan[1].task_executions[i].status = "completed"
          /\ plan[1].task_executions[j].status = "failed"
          /\ plan[1].task_executions[j].retry_count = MaxRetries

\* task i of the plan of call 1 names a tool that is not registered and has
\* been dispatched
UnregisteredDispatched(i) ==
    /\ i \in DOMAIN plan[1].sub_tasks
    /\ ~get_tool(plan[1].sub_tasks[i].tool_name)
    /\ task_log[1].dispatched[plan[1].sub_tasks[i].id] >= 1

\* task i was dispatched max_retries + 1 times and is Failed for good, with
\* its error recorded and one completed_tasks.add
FailedAfterAllRetries(i) ==
    /\ i \in DOMAIN plan[1].sub_tasks
    /\ LET id == plan[1].sub_tasks[i].id
           te == plan[1].task_executions[i]
       IN /\ task_log[1].dispatched[id] = MaxRetries + 1
          /\ te.status = "failed"
          /\ te.retry_count = MaxRetries
          /\ te.error # ""
          /\ task_log[1].joined[id] = 1
          /\ id \in completed_tasks[1]

RetryBounds ==
    \A i \in DOMAIN plan[1].sub_tasks :
        LET id == plan[1].sub_tasks[i].id
        IN /\ plan[1].task_executions[i].retry_count \in 0..MaxRetries
           /\ task_log[1].dispatched[id] <= MaxRetries + 1
           /\ task_log[1].joined[id] <= 1
           /\ (Finished(1) /\ UnregisteredDispatched(i)) => FailedAfterAllRetries(i)

\* C19: 0 <= retry_count <= 3 at all times and a task is dispatched at most
\* 4 times; a task whose tool is not registered is dispatched exactly 4
\* times and ends Failed for good, its error recorded, added to the completed
\* set exactly once.
C19_FourDispatches ==
    /\ [] RetryBounds
    /\ \A i \in 1..MaxTasks : UnregisteredDispatched(i) ~> FailedAfterAllRetries(i)

\* the call has returned and an unregistered-tool task went through its four
\* dispatches
C19_Witness ==
    /\ Finished(1)
    /\ \E i \in DOMAIN plan[1].sub_tasks :
          UnregisteredDispatched(i) /\ FailedAfterAllRetries(i)

\* the position in the plan of call 1 of the task with the id
PositionOf(id) == CHOOSE j \in DOMAIN plan[1].sub_tasks : plan[1].sub_tasks[j].id = id

\* the plan of call 1 is acyclic, and every dependency of its task i is a
\* task of the plan that is Completed or Failed for good
DependenciesEnded(i) ==
    /\ pc[1] # "idle"
    /\ i \in DOMAIN plan[1].sub_tasks
    /\ AllIterable(plan[1].sub_tasks)
    /\ ~HasDependencyCycle(plan[1].sub_tasks)
    /\ \A d \in plan[1].sub_tasks[i].dependencies :
          /\ d \in PlanIds(plan[1].sub_tasks)
          /\ TerminalStatus(plan[1].task_executions[PositionOf(d)])

Dispatched(i) ==
    /\ i \in DOMAIN plan[1].sub_tasks
    /\ task_log[1].dispatched[plan[1].sub_tasks[i].id] >= 1

\* the results a task took parameters from are those of dependencies that
\* are Completed with a recorded result, never that of a Failed one
ReadOnlyRecorded ==
    \A id \in DOMAIN task_log[1].read :
        \A d \in task_log[1].read[id] :
            /\ d \in PlanIds(plan[1].sub_tasks)
            /\ plan[1].task_executions[PositionOf(d)].status = "completed"
            /\ plan[1].task_executions[PositionOf(d)].result.set

\* C20: a task Failed for good satisfies the dependencies of the tasks after
\* it: in an acyclic plan a task all of whose dependencies have ended
\* Completed or Failed for good is eventually dispatched, and when it runs it
\* takes parameters only from the dependencies with a recorded result, none
\* from the failed one.
C20_FailedDependencySatisfies ==
    /\ [] ReadOnlyRecorded
    /\ \A i \in 1..MaxTasks : DependenciesEnded(i) ~> Dispatched(i)

\* a task has run after its dependency Failed for good, and took no result
C20_Witness ==
    \E i, j \in DOMAIN plan[1].sub_tasks :
        /\ plan[1].sub_tasks[j].id \in plan[1].sub_tasks[i].dependencies
        /\ plan[1].task_executions[j].status = "failed"
        /\ plan[1].task_executions[j].retry_count = MaxRetries
        /\ DependenciesEnded(i) /\ Dispatched(i)
        /\ plan[1].task_executions[i].status = "completed"
        /\ task_log[1].read[plan[1].sub_tasks[i].id] = {}

\* the tasks ready at the head of the last pass of the loop of call 1: not
\* running, not Completed or Failed, every dependency in the completed set
ReadyAtWave ==
    LET w == task_log[1].wave
    IN {i \in DOMAIN w.statuses :
          /\ plan[1].sub_tasks[i].id \notin w.running
          /\ w.statuses[i] \notin {"completed", "failed"}
          /\ plan[1].sub_tasks[i].dependencies \subseteq w.completed}

\* C21: when the scheduler dispatches a task, no ready task it leaves
\* undispatched has a strictly higher priority, and of ready tasks of equal
\* priority the one earlier in the plan's list is dispatched first.
C21_HighestPriorityFirst ==
    \A i \in task_log[1].wave.started :
        \A j \in ReadyAtWave \ task_log[1].wave.started :
            /\ plan[1].sub_tasks[j].priority <= plan[1].sub_tasks[i].priority
            /\ plan[1].sub_tasks[j].priority = plan[1].sub_tasks[i].priority => i < j

\* the second task of the plan was started ahead of the first, which was
\* ready with a lower priority
C21_Witness ==
    /\ task_log[1].wave.started = {2}
    /\ 1 \in ReadyAtWave
    /\ plan[1].sub_tasks[1].priority < plan[1].sub_tasks[2].priority

\* the highest value task_id_counter takes in the model
MaxCounter == 6 * MaxDecompositions

\* the counter value an id was formatted from
IdNumber(id) == CHOOSE n \in 0..MaxCounter : FormatTaskId(n) = id

\* the ids of the decomposition, in the order of its list
DecompositionIds(d) == [k \in DOMAIN d.sub_tasks |-> d.sub_tasks[k].id]

\* within a decomposition the ids are in strictly increasing counter order,
\* none above the counter, and none is the id of an earlier sub-task
IdsInOrder ==
    LET ids == DecompositionIds(decomposition)
    IN /\ \A k \in DOMAIN ids : \E n \in 1..task_id_counter : FormatTaskId(n) = ids[k]
       /\ \A k, l \in DOMAIN ids : k < l => IdNumber(ids[k]) < IdNumber(ids[l])
       /\ \A k \in DOMAIN ids : ids[k] \notin issued

\* a step never lowers the counter, and a step that produces a decomposition
\* gives it ids above the counter it started from
CounterGrows ==
    /\ task_id_counter' >= task_id_counter
    /\ decompositions_made' # decompositions_made =>
          \A k \in DOMAIN decomposition'.sub_tasks :
              /\ decomposition'.sub_tasks[k].id \notin issued'
              /\ IdNumber(decomposition'.sub_tasks[k].id) > task_id_counter

\* C22: over any sequence of decompose_query calls on one decomposer, calls
\* that overlap at the LLM await included, every sub-task gets an id that no
\* earlier sub-task of the decomposer has, ids are issued in strictly
\* increasing counter order, and the counter never goes down or restarts.
C22_FreshIncreasingIds == [] IdsInOrder /\ [][CounterGrows]_vars

\* two calls have produced their sub-tasks while a third is suspended at the
\* LLM await, and one of the two went through the LLM path, where ids were
\* generated for entries that were then dropped
C22_Witness ==
    /\ decompositions_made >= 2
    /\ suspended >= 1
    /\ issued # {}
    /\ task_id_counter > Cardinality(issued) + Len(decomposition.sub_tasks)

\* the LLM-based decomposition is not there or fails: no LLM, the call
\* raises, the answer is no JSON, or an entry names no TaskType
FallsBack(llm) ==
    \/ llm.kind \in {"unavailable", "raises", "invalid_json"}
    \/ \E k \in DOMAIN llm.tasks : llm.tasks[k].tool_name \notin TaskTypeNames

\* C23: for a complex_multi_step query, when no LLM is available or the
\* LLM-based decomposition fails at any point, _decompose_complex_query
\* returns exactly 4 sub-tasks, extract-entities -> business-summary ->
\* statistics -> synthesis, the first without dependencies and each later one
\* depending on exactly the id of its predecessor in the list.
C23_FallbackIsChain ==
    [][\A llm \in LlmOutcomes :
          (FallsBack(llm) /\ DecomposeAnalyzed(ComplexQuery, llm))
          => /\ Len(decomposition'.sub_tasks) = 4
             /\ decomposition'.sub_tasks[1].parameters.operation = "extract_entities"
             /\ IsAnalyticalChain(decomposition'.sub_tasks)]_vars

\* the first call on a decomposer fell back after the LLM path had spent an
\* id, and the second task of the chain does not depend on the first
C23_ChainBroken ==
    /\ decompositions_made = 1
    /\ decomposition.query_type = "complex_multi_step"
    /\ Len(decomposition.sub_tasks) = 4
    /\ decomposition.sub_tasks[2].dependencies # {decomposition.sub_tasks[1].id}

\* C24: safe_execute never raises to its caller; every call adds exactly 1 to
\* the tool's execution_count (and to no other tool's) and sets last_used; the
\* returned map has success=true and the domain logic's result when the
\* domain logic returned, success=false and its error message when it raised.
C24_SafeExecuteFoldsOutcome ==
    [][tool_call'.via \in {"safe_execute", "execute_tool"}
       => /\ ~tool_call'.raised
          /\ tools' = [tools EXCEPT ![tool_call'.tool] = @ + 1]
          /\ tool_call'.last_used = "now"
          /\ IF tool_call'.outcome.raised
             THEN /\ ~tool_call'.returned.success
                  /\ ~tool_call'.returned.has_result
                  /\ tool_call'.returned.error = tool_call'.outcome.message
             ELSE /\ tool_call'.returned.success
                  /\ tool_call'.returned.has_result
                  /\ tool_call'.returned.result = tool_call'.outcome.value]_vars

\* safe_execute was called on a tool whose domain logic raised
C24_Witness ==
    /\ tool_call.via = "safe_execute"
    /\ tool_call.outcome.raised
    /\ ~tool_call.returned.success
    /\ tools[tool_call.tool] = 1

\* the type the fixed order of keyword groups gives a text whose returned
\* score, doubled, is doubled_score
TypeByFirstMatch(query, doubled_score) ==
    LET Named(category) ==
            \E k \in DOMAIN Indicators(category) :
                Occurs(Indicators(category)[k], Lower(query))
    IN CASE Named("comparative") -> "comparative_analysis"
         [] ~Named("comparative") /\ Named("analytical") ->
              IF doubled_score > 10 THEN "complex_multi_step" ELSE "analytical_aggregation"
         [] ~Named("comparative") /\ ~Named("analytical") /\ Named("multi_entity") ->
              "multi_entity_lookup"
         [] ~Named("comparative") /\ ~Named("analytical") /\ ~Named("multi_entity")
            /\ Named("lookup") -> "single_entity_lookup"
         [] OTHER ->
              IF doubled_score > 12 THEN "complex_multi_step"
              ELSE IF doubled_score > 6 THEN "multi_entity_lookup"
              ELSE "simple_informational"

\* the keyword groups of each text, looked up once
FirstMatch ==
    [query \in TextQueries |->
        [doubled_score \in 0..20 |-> TypeByFirstMatch(query, doubled_score)]]

\* C25: the analyzer classifies by first match in the order comparative,
\* analytical (complex_multi_step if the score is above 5.0, else
\* analytical_aggregation), multi-entity, lookup, and otherwise by the score
\* (above 6.0 complex_multi_step, above 3.0 multi_entity_lookup, else
\* simple_informational); the returned score lies within [0, 10].
C25_ClassifiedByFirstMatch ==
    analysis # NoAnalysis
    => /\ analysis.doubled_score \in 0..20
       /\ analysis.query_type = FirstMatch[analysis.query][analysis.doubled_score]

\* a text with a lookup keyword and a multi-entity keyword was analyzed
C25_Witness ==
    /\ analysis.query = ShowOrderQuery
    /\ analysis.query_type = "multi_entity_lookup"

\* the score of a text was cut down to the cap
ScoreCapped ==
    /\ analysis.query = ManyKeywordsQuery
    /\ analysis.doubled_score = 20
    /\ DoubledScore(ManyKeywordsQuery) = 30

\* every branch of the classification is taken by some text
AllTypesAnalyzed ==
    {Analyses[query].query_type : query \in TextQueries} =
        {"comparative_analysis", "complex_multi_step", "analytical_aggregation",
         "multi_entity_lookup", "single_entity_lookup", "simple_informational"}

\* C26: in a single_entity_lookup plan run with the built-in tools, once the
\* extract_entities task has completed, the dependent database_query task is
\* dispatched with the extracted entities merged into its params sub-map: the
\* params it declared empty are populated.
C26_EntitiesMerged ==
    (/\ prepared.done
     /\ prepared.task_type = "database_query"
     /\ prepared.declared = LookupParameters
     /\ prepared.dependencies = <<FormatTaskId(1)>>
     /\ FormatTaskId(1) \in DOMAIN prepared.previous_results
     /\ prepared.previous_results[FormatTaskId(1)] = ExtractEntitiesResult
     /\ "params" \notin DOMAIN prepared.context)
    => prepared.parameters["params"].atoms # <<>>

\* the order lookup was prepared after extract_entities and its params are
\* empty still
C26_ParamsLeftEmpty ==
    /\ prepared.done
    /\ prepared.task_type = "database_query"
    /\ prepared.declared = LookupParameters
    /\ prepared.dependencies = <<FormatTaskId(1)>>
    /\ FormatTaskId(1) \in DOMAIN prepared.previous_results
    /\ prepared.previous_results[FormatTaskId(1)] = ExtractEntitiesResult
    /\ prepared.context = EmptyMap
    /\ prepared.parameters = LookupParameters

(***************************************************************************)
(* SpecAnyCeiling: one execute_query_plan call on an orchestrator built    *)
(* with any max_concurrent_tasks; the constructor stores the argument as   *)
(* it is given.                                                            *)
(***************************************************************************)
AnyCeilings == {-1, 0, 1}

InitAnyCeiling ==
    /\ tools = [n \in BuiltinTools |-> 0]
    /\ tool_usage_stats = [n \in BuiltinTools |-> 0]
    /\ registry_outcome = NoToolCall
    /\ registry_calls = 0
    /\ tool_call = NoDirectCall
    /\ calls_since_register = tool_usage_stats
    /\ max_concurrent_tasks \in AnyCeilings
    /\ active_executions = EmptyMap
    /\ execution_history = <<>>
    /\ performance_metrics =
         [total_executions |-> 0, successful_executions |-> 0,
          failed_executions |-> 0, tool_usage_count |-> EmptyMap]
    /\ now = 0
    /\ plans_created = 0
    /\ InitCalls
    /\ InitDecomposer

SpecAnyCeiling == InitAnyCeiling /\ [][Next]_vars

FairAnyCeiling ==
    /\ SpecAnyCeiling
    /\ WF_vars(\E id \in DOMAIN running_tasks[1] : TaskRun(1, id))
    /\ WF_vars(\E id \in DOMAIN running_tasks[1] : \E ok \in BOOLEAN : ToolReturn(1, id, ok))
    /\ WF_vars(Wake(1))

\* C27: for every integer max_concurrent_tasks, 0 and negative values
\* included, execute_query_plan on a plan with at least one sub-task returns
\* to its caller, provided tool invocations return.
C27_CallTerminates ==
    (plans_created = 1 /\ Len(plan[1].sub_tasks) >= 1)
        ~> (pc[1] \in {"returned", "raised"})

\* with a ceiling of 0 or below, a ready task is never started and the loop
\* goes round without suspending
C27_LoopSpins ==
    /\ max_concurrent_tasks <= 0
    /\ pc[1] = "spinning"
    /\ running_tasks[1] = EmptyMap
    /\ completed_tasks[1] = {}

\* with a ceiling of 1 or more the call is never in the spinning loop
PositiveCeilingNeverSpins ==
    max_concurrent_tasks >= 1 => pc[1] # "spinning"

\* C28: executing a plan leaves the decomposition unchanged: every SubTask's
\* parameters map, the nested params sub-map included, holds the same keys
\* and values after the dispatch as before it, for any tool results and any
\* context; enrichment touches the per-dispatch copy only.
C28_DeclaredUnchanged ==
    prepared.done => prepared.declared_after = prepared.declared

\* a database_query task declared with empty params was prepared from a
\* result holding entities, and the declared params hold them now
C28_DeclaredParamsWritten ==
    /\ prepared.done
    /\ prepared.task_type = "database_query"
    /\ prepared.declared = LookupParameters
    /\ prepared.declared_after["params"] = OrderEntities

\* the keys other than params are bound in the copy only
OnlyParamsWritten ==
    prepared.done
    => /\ DOMAIN prepared.declared_after = DOMAIN prepared.declared
       /\ \A k \in DOMAIN prepared.declared \ {"params"} :
             prepared.declared_after[k] = prepared.declared[k]
       /\ prepared.task_type # "database_query"
          => prepared.declared_after = prepared.declared

\* the ids of the tasks of call c whose status is one of statuses
IdsWithStatus(c, statuses) ==
    {plan[c].sub_tasks[i].id :
        i \in {j \in DOMAIN plan[c].task_executions :
                  plan[c].task_executions[j].status \in statuses}}

\* C29: in every reachable state of the execution loop, completed_tasks is
\* the set of the ids of the tasks that are Completed or Failed for good; the
\* results map has an entry for exactly the Completed tasks, equal to the
\* task's recorded result; running_tasks holds exactly the Running tasks; and
\* no id is both in running_tasks and in completed_tasks.
C29_LoopBookkeeping ==
    \A c \in Calls :
        pc[c] # "idle"
        => /\ completed_tasks[c] = IdsWithStatus(c, {"completed", "failed"})
           /\ \A i \in DOMAIN plan[c].task_executions :
                 plan[c].task_executions[i].status = "failed"
                 => ~RetryAllowed(plan[c].task_executions[i])
           /\ DOMAIN results[c] = IdsWithStatus(c, {"completed"})
           /\ \A i \in DOMAIN plan[c].task_executions :
                 plan[c].task_executions[i].status = "completed"
                 => results[c][plan[c].sub_tasks[i].id]
                        = plan[c].task_executions[i].result
           /\ DOMAIN running_tasks[c] = IdsWithStatus(c, {"running"})
           /\ DOMAIN running_tasks[c] \cap completed_tasks[c] = {}

\* the loop is suspended with one task Completed and another Running
C29_Witness ==
    /\ pc[1] = "waiting"
    /\ IdsWithStatus(1, {"completed"}) # {}
    /\ IdsWithStatus(1, {"running"}) # {}
    /\ completed_tasks[1] # {}
    /\ DOMAIN results[1] # {}

\* the loop has ended with a task Failed for good
C29_FailedJoined ==
    /\ pc[1] = "returned"
    /\ IdsWithStatus(1, {"failed"}) # {}
    /\ IdsWithStatus(1, {"failed"}) \subseteq completed_tasks[1]

(***************************************************************************)
(* SpecUsage: execute_query_plan calls, one after another or overlapping,  *)
(* on the one orchestrator of a registry whose tools were registered       *)
(* before; the plans name registered and unregistered tools.               *)
(***************************************************************************)
UsagePlans ==
    UNION {{s \in SubTaskLists(n) :
              \A i \in 1..n : /\ s[i].dependencies = {}
                               /\ s[i].priority = 1
                               /\ s[i].deps_iterable} :
           n \in 1..MaxTasks}

StartUsage(c) ==
    /\ plans_created < MaxExecutions
    /\ \E subs \in UsagePlans : StartCall(c, subs, MaxExecutions)

NextUsage ==
    \/ \E c \in Calls : StartUsage(c)
    \/ \E c \in Calls : \E id \in DOMAIN running_tasks[c] : TaskRun(c, id)
    \/ \E c \in Calls : \E id \in DOMAIN running_tasks[c] :
          \E ok \in BOOLEAN : ToolReturn(c, id, ok)
    \/ \E c \in Calls : Wake(c)

SpecUsage == Init /\ [][NextUsage]_vars

\* every execute_query_plan call made so far is over
CallsCompleted ==
    \A c \in Calls : pc[c] \in {"idle", "returned", "raised"}

\* C30: with one orchestrator on the registry and every tool registered once
\* before any plan runs, once the execute_query_plan calls made are over,
\* tool_usage_count[t] of the orchestrator equals get_usage_stats()[t] and
\* the tool's execution_count for every registered tool t that was invoked;
\* a dispatch to an unregistered name is counted in none of the three.
C30_UsageCountsAgree ==
    CallsCompleted
    => /\ \A t \in DOMAIN tools :
             tools[t] > 0
             => /\ t \in DOMAIN performance_metrics.tool_usage_count
                /\ performance_metrics.tool_usage_count[t] = get_usage_stats[t]
                /\ performance_metrics.tool_usage_count[t] = tools[t]
       /\ \A t \in DOMAIN tools : tools[t] = 0 => get_usage_stats[t] = 0
       /\ DOMAIN performance_metrics.tool_usage_count \subseteq DOMAIN tools
       /\ DOMAIN get_usage_stats = DOMAIN tools
       /\ UnregisteredChoice \notin DOMAIN tools

\* two calls are over, the registered tool was invoked more than once and a
\* task naming an unregistered tool was dispatched
C30_Witness ==
    /\ CallsCompleted
    /\ plans_created = 2
    /\ tools[RegisteredChoice] >= 2
    /\ \E c \in Calls : \E i \in DOMAIN plan[c].sub_tasks :
          /\ plan[c].sub_tasks[i].tool_name = UnregisteredChoice
          /\ task_log[c].dispatched[plan[c].sub_tasks[i].id] >= 1

\* while a tool invocation is under way the registry has counted it and the
\* orchestrator has not
CountsApartInFlight ==
    /\ ~CallsCompleted
    /\ tools[RegisteredChoice] = 1
    /\ RegisteredChoice \notin DOMAIN performance_metrics.tool_usage_count

====
